---------------------------- MODULE Spec2Model ----------------------------
(***************************************************************************)
(* Model of the expression parsing and field-provenance engine of          *)
(* DataverseFieldUpdateTracker:                                            *)
(*   src/expression_parser.py    EXPRESSION_GRAMMAR, ExpressionTransformer,*)
(*                               ExpressionParser, AdvancedExpressionParser*)
(*                               and VariableTracker                       *)
(*   src/cloudflow_operations.py CloudFlowParser, UpdateActionAnalyzer and *)
(*                               CloudFlowMetadataExtractor                *)
(*                                                                         *)
(* Python strings are sequences of one-character strings, so that prefix   *)
(* tests, slicing, tokenising and pattern matching are computed and not    *)
(* assumed.  Python values are tagged records:                             *)
(*   [t |-> "str", s |-> chars]   [t |-> "int", n |-> Int]                 *)
(*   [t |-> "float", s |-> text]  [t |-> "none"]                           *)
(*   [t |-> "dict", kv |-> <<[k |-> chars, v |-> value], ...>>]            *)
(*   [t |-> "list", xs |-> <<value, ...>>]                                 *)
(* A Python dict built by the code with a fixed choice of keys is a TLA+   *)
(* record whose DOMAIN is the set of keys present.                         *)
(***************************************************************************)
EXTENDS Integers, Sequences, FiniteSets, TLC

VARIABLES
    \* ---- one call of parse_expression ----
    expression,      \* the argument of parse_expression
    use_advanced,    \* TRUE: an AdvancedExpressionParser, FALSE: an ExpressionParser
    ast_enabled,     \* AdvancedExpressionParser.ast_enabled
    parsed,          \* the returned dict (NoResult before the call)
    reparsed,        \* the dict a second call on the same parser returned
    \* ---- one VariableTracker and its callers ----
    variables,       \* VariableTracker.variables: name -> entry object
    heap,            \* the entry objects (dicts) created so far
    history,         \* the calls made on the tracker so far, in order
    ret,             \* what the last call returned
    snapshot,        \* the mapping get_all_variables returned last, kept by its caller
    \* ---- one call of extract_metadata ----
    clientdata,      \* the clientdata argument, deserialised where it is JSON
    pc,              \* position inside extract_metadata
    definition,      \* parse_result['definition']
    idx,             \* number of entries of actions.items() already taken
    result,          \* the result dict being built
    tracker,         \* the call's own VariableTracker
    analysis,        \* what analyze_update_action returned last
    \* ---- a second call of extract_metadata on the same extractor ----
    other,           \* that call's locals (NoCall where there is none)
    \* ---- calls of DataverseOperations.get_attibuteid with one RateLimitTracker ----
    attr,            \* the locals of the current call and how it ended
    rate_limit_tracker,  \* the RateLimitTracker passed to every call
    observed         \* what the calls did on the wire: requests sent, seconds slept, retries made

vars == <<expression, use_advanced, ast_enabled, parsed, reparsed,
          variables, heap, history, ret, snapshot,
          clientdata, pc, definition, idx, result, tracker, analysis, other,
          attr, rate_limit_tracker, observed>>

apiVars     == <<attr, rate_limit_tracker, observed>>
parseVars   == <<expression, use_advanced, ast_enabled, parsed, reparsed>>
trackerVars == <<variables, heap, history, ret, snapshot>>
extractVars == <<clientdata, pc, definition, idx, result, tracker, analysis, other>>

(***************************************************************************)
(* Python values                                                           *)
(***************************************************************************)
PyStr(s)    == [t |-> "str", s |-> s]
PyInt(n)    == [t |-> "int", n |-> n]
PyFloat(s)  == [t |-> "float", s |-> s]
PyNone      == [t |-> "none"]
PyDict(kv)  == [t |-> "dict", kv |-> kv]
PyList(xs)  == [t |-> "list", xs |-> xs]
KV(k, v)    == [k |-> k, v |-> v]

IsStr(v)  == v.t = "str"
IsDict(v) == v.t = "dict"

Digits == {"0", "1", "2", "3", "4", "5", "6", "7", "8", "9"}

\* bool(v): the truth value Python gives a value in `if v:` / `not v`
PyTruthy(v) ==
    IF "t" \notin DOMAIN v THEN TRUE  \* an AST node: a dict with keys
    ELSE
    CASE v.t = "str"   -> v.s # <<>>
      [] v.t = "int"   -> v.n # 0
      [] v.t = "float" -> \E i \in 1..Len(v.s) : v.s[i] \in Digits \ {"0"}
      [] v.t = "none"  -> FALSE
      [] v.t = "dict"  -> v.kv # <<>>
      [] v.t = "list"  -> v.xs # <<>>
      [] OTHER         -> TRUE

(***************************************************************************)
(* String helpers: str.startswith, str.strip, slicing                      *)
(***************************************************************************)
Min(S) == CHOOSE m \in S : \A x \in S : m <= x
Max(S) == CHOOSE m \in S : \A x \in S : m >= x

\* the characters str.strip() removes and the grammar's WS / regex \s match
WhiteSpace == {" ", "\t", "\n", "\r", "\f"}

StartsWith(s, p) == Len(s) >= Len(p) /\ SubSeq(s, 1, Len(p)) = p

\* s[n:]
DropPrefix(s, n) == SubSeq(s, n + 1, Len(s))

\* s.strip()
Strip(s) ==
    LET keep == {i \in 1..Len(s) : s[i] \notin WhiteSpace}
    IN  IF keep = {} THEN <<>> ELSE SubSeq(s, Min(keep), Max(keep))

\* first index j >= i of s whose character is outside set (Len(s)+1 if none)
SkipIn(s, i, set) ==
    LET J == {j \in i..Len(s) : s[j] \notin set}
    IN  IF J = {} THEN Len(s) + 1 ELSE Min(J)

\* first index j >= i of s whose character is in set (Len(s)+1 if none)
SkipTo(s, i, set) ==
    LET J == {j \in i..Len(s) : s[j] \in set}
    IN  IF J = {} THEN Len(s) + 1 ELSE Min(J)


(***************************************************************************)
(* EXPRESSION_GRAMMAR: the terminals                                       *)
(***************************************************************************)
Letters ==
    {"a", "b", "c", "d", "e", "f", "g", "h", "i", "j", "k", "l", "m",
     "n", "o", "p", "q", "r", "s", "t", "u", "v", "w", "x", "y", "z",
     "A", "B", "C", "D", "E", "F", "G", "H", "I", "J", "K", "L", "M",
     "N", "O", "P", "Q", "R", "S", "T", "U", "V", "W", "X", "Y", "Z"}

\* IDENTIFIER: /[a-zA-Z_][a-zA-Z0-9_]*/
IdentStart == Letters \cup {"_"}
IdentChars == IdentStart \cup Digits

\* the anonymous terminals "@" "(" ")" "." "?" "[" "]" ","
Punctuation == {"@", "(", ")", ".", "?", "[", "]", ","}

Tok(type, text) == [type |-> type, text |-> text]

LexFail == [ok |-> FALSE]

\* NUMBER: /-?\d+(\.\d+)?/ : the index after the number whose digits start at d
NumberEnd(s, d) ==
    LET e == SkipIn(s, d, Digits)
    IN  IF e + 1 <= Len(s) /\ s[e] = "." /\ s[e + 1] \in Digits
        THEN SkipIn(s, e + 1, Digits)
        ELSE e

\* The lexer: WS is ignored, every other character must start a terminal.
\* BOOLEAN and NULL never win against IDENTIFIER (the longer regexp is tried
\* first wherever both are acceptable), so the words true, false and null lex
\* as IDENTIFIER.
RECURSIVE Lex(_, _, _)
Lex(s, i, acc) ==
    LET j == SkipIn(s, i, WhiteSpace)
    IN  IF j > Len(s) THEN [ok |-> TRUE, toks |-> acc]
        ELSE LET c == s[j]
             IN  CASE c \in IdentStart ->
                        LET e == SkipIn(s, j, IdentChars)
                        IN  Lex(s, e, Append(acc, Tok("IDENTIFIER", SubSeq(s, j, e - 1))))
                   [] c \in {"'", "\""} ->
                        \* STRING: /'[^']*'/ | /"[^"]*"/
                        LET e == SkipTo(s, j + 1, {c})
                        IN  IF e > Len(s) THEN LexFail
                            ELSE Lex(s, e + 1, Append(acc, Tok("STRING", SubSeq(s, j, e))))
                   [] c \in Digits ->
                        LET e == NumberEnd(s, j)
                        IN  Lex(s, e, Append(acc, Tok("NUMBER", SubSeq(s, j, e - 1))))
                   [] c = "-" /\ j < Len(s) /\ s[j + 1] \in Digits ->
                        LET e == NumberEnd(s, j + 1)
                        IN  Lex(s, e, Append(acc, Tok("NUMBER", SubSeq(s, j, e - 1))))
                   [] c \in Punctuation ->
                        Lex(s, j + 1, Append(acc, Tok(c, <<c>>)))
                   [] OTHER -> LexFail

(***************************************************************************)
(* ExpressionTransformer: the terminal callbacks                           *)
(***************************************************************************)
DigitValue(c) ==
    CASE c = "0" -> 0 [] c = "1" -> 1 [] c = "2" -> 2 [] c = "3" -> 3
      [] c = "4" -> 4 [] c = "5" -> 5 [] c = "6" -> 6 [] c = "7" -> 7
      [] c = "8" -> 8 [] c = "9" -> 9

RECURSIVE DigitsToInt(_)
DigitsToInt(ds) ==
    IF ds = <<>> THEN 0
    ELSE 10 * DigitsToInt(SubSeq(ds, 1, Len(ds) - 1)) + DigitValue(ds[Len(ds)])

\* STRING(token): the quotes are removed
T_STRING(text) ==
    IF text[1] \in {"'", "\""} /\ text[Len(text)] \in {"'", "\""}
    THEN PyStr(SubSeq(text, 2, Len(text) - 1))
    ELSE PyStr(text)

\* NUMBER(token): float(value) if '.' in value else int(value)
T_NUMBER(text) ==
    IF \E i \in 1..Len(text) : text[i] = "."
    THEN PyFloat(text)
    ELSE IF text[1] = "-" THEN PyInt(0 - DigitsToInt(DropPrefix(text, 1)))
         ELSE PyInt(DigitsToInt(text))

\* IDENTIFIER(token): str(token)
T_IDENTIFIER(text) == PyStr(text)

\* a terminal after its callback (children reach the rule callbacks transformed)
TokValue(tok) ==
    CASE tok.type = "STRING"     -> T_STRING(tok.text)
      [] tok.type = "NUMBER"     -> T_NUMBER(tok.text)
      [] tok.type = "IDENTIFIER" -> T_IDENTIFIER(tok.text)


(***************************************************************************)
(* EXPRESSION_GRAMMAR: the rules, with the ExpressionTransformer callback  *)
(* of each rule applied as the rule is reduced.  The anonymous terminals   *)
(* are filtered out of the children, so expression() always receives one   *)
(* item and returns it: the "@" leaves no trace in the AST.                *)
(***************************************************************************)
ParseFail == [ok |-> FALSE]

TokType(toks, i) == IF i <= Len(toks) THEN toks[i].type ELSE "$END"

\* dot_accessor / bracket_accessor / optional_bracket_accessor
Accessor(kind, value) == [accessor_type |-> kind, value |-> value]

\* selector: STRING | NUMBER | IDENTIFIER (the item is no Token any more)
IsSelector(toks, i) == TokType(toks, i) \in {"STRING", "NUMBER", "IDENTIFIER"}

\* accessor* : [ok, accs, next]
RECURSIVE ParseAccessors(_, _, _)
ParseAccessors(toks, i, acc) ==
    CASE TokType(toks, i) = "." ->
            IF TokType(toks, i + 1) = "IDENTIFIER"
            THEN ParseAccessors(toks, i + 2,
                    Append(acc, Accessor("dot", PyStr(toks[i + 1].text))))
            ELSE ParseFail
      [] TokType(toks, i) = "?" ->
            IF /\ TokType(toks, i + 1) = "["
               /\ IsSelector(toks, i + 2)
               /\ TokType(toks, i + 3) = "]"
            THEN ParseAccessors(toks, i + 4,
                    Append(acc, Accessor("optional_bracket", TokValue(toks[i + 2]))))
            ELSE ParseFail
      [] TokType(toks, i) = "[" ->
            IF IsSelector(toks, i + 1) /\ TokType(toks, i + 2) = "]"
            THEN ParseAccessors(toks, i + 3,
                    Append(acc, Accessor("bracket", TokValue(toks[i + 1]))))
            ELSE ParseFail
      [] OTHER -> [ok |-> TRUE, accs |-> acc, next |-> i]

\* function_call_with_accessors(items)
FunctionCall(func_name, args, accessors) ==
    LET base == [type |-> "function_call", function |-> func_name,
                 arguments |-> args]
    IN  IF accessors # <<>> THEN [accessors |-> accessors] @@ base ELSE base

\* identifier_with_accessors(items) and parenthesized_expression(items)
PropertyAccess(base, accessors) ==
    [type |-> "property_access", base |-> base, accessors |-> accessors]

RECURSIVE ParseExpr(_, _)
RECURSIVE ParsePrimary(_, _)
RECURSIVE ParseArgs(_, _, _)

\* expression: "@" primary | primary | literal : [ok, ast, next]
ParseExpr(toks, i) ==
    CASE TokType(toks, i) = "@" -> ParsePrimary(toks, i + 1)
      [] TokType(toks, i) \in {"STRING", "NUMBER"} ->
            [ok |-> TRUE, ast |-> TokValue(toks[i]), next |-> i + 1]
      [] OTHER -> ParsePrimary(toks, i)

\* argument_list: expression ("," expression)* : [ok, args, next]
ParseArgs(toks, i, acc) ==
    LET e == ParseExpr(toks, i)
    IN  IF ~e.ok THEN ParseFail
        ELSE IF TokType(toks, e.next) = ","
             THEN ParseArgs(toks, e.next + 1, Append(acc, e.ast))
             ELSE [ok |-> TRUE, args |-> Append(acc, e.ast), next |-> e.next]

\* primary
ParsePrimary(toks, i) ==
    CASE TokType(toks, i) = "IDENTIFIER" /\ TokType(toks, i + 1) = "(" ->
            LET a == IF TokType(toks, i + 2) = ")"
                     THEN [ok |-> TRUE, args |-> <<>>, next |-> i + 2]
                     ELSE ParseArgs(toks, i + 2, <<>>)
            IN  IF ~a.ok \/ TokType(toks, a.next) # ")" THEN ParseFail
                ELSE LET x == ParseAccessors(toks, a.next + 1, <<>>)
                     IN  IF ~x.ok THEN ParseFail
                         ELSE [ok |-> TRUE,
                               ast |-> FunctionCall(toks[i].text, a.args, x.accs),
                               next |-> x.next]
      [] TokType(toks, i) = "IDENTIFIER" /\ TokType(toks, i + 1) # "(" ->
            LET x == ParseAccessors(toks, i + 1, <<>>)
            IN  IF ~x.ok THEN ParseFail
                ELSE [ok |-> TRUE,
                      ast |-> IF x.accs # <<>>
                              THEN PropertyAccess(PyStr(toks[i].text), x.accs)
                              ELSE PyStr(toks[i].text),
                      next |-> x.next]
      [] TokType(toks, i) = "(" ->
            LET e == ParseExpr(toks, i + 1)
            IN  IF ~e.ok \/ TokType(toks, e.next) # ")" THEN ParseFail
                ELSE LET x == ParseAccessors(toks, e.next + 1, <<>>)
                     IN  IF ~x.ok THEN ParseFail
                         ELSE [ok |-> TRUE,
                               ast |-> IF x.accs # <<>>
                                       THEN PropertyAccess(e.ast, x.accs)
                                       ELSE e.ast,
                               next |-> x.next]
      [] OTHER -> ParseFail

\* self.transformer.transform(self.parser.parse(expression)):
\* [ok |-> FALSE] stands for a raised LarkError
ParseToAst(s) ==
    LET l == Lex(s, 1, <<>>)
    IN  IF ~l.ok THEN ParseFail
        ELSE LET e == ParseExpr(l.toks, 1)
             IN  IF e.ok /\ e.next = Len(l.toks) + 1
                 THEN [ok |-> TRUE, ast |-> e.ast]
                 ELSE ParseFail


(***************************************************************************)
(* AdvancedExpressionParser: the semantic walk of the AST                  *)
(***************************************************************************)
s_body_slash     == <<"b", "o", "d", "y", "/">>
s_triggerBody    == <<"t", "r", "i", "g", "g", "e", "r", "B", "o", "d", "y">>
s_triggerOutputs == <<"t", "r", "i", "g", "g", "e", "r", "O", "u", "t", "p", "u", "t", "s">>
s_variables      == <<"v", "a", "r", "i", "a", "b", "l", "e", "s">>
s_outputs        == <<"o", "u", "t", "p", "u", "t", "s">>
s_body           == <<"b", "o", "d", "y">>
s_parameters     == <<"p", "a", "r", "a", "m", "e", "t", "e", "r", "s">>
s_item           == <<"i", "t", "e", "m">>

\* value[5:] when value is a str starting with 'body/'
\* variant: the 'body/' prefix is kept
StripBodyPrefix_Kept(value) == value

StripBodyPrefix(value) ==
    IF IsStr(value) /\ StartsWith(value.s, s_body_slash)
    THEN PyStr(DropPrefix(value.s, 5))
    ELSE value

\* _extract_field_refs_from_accessors: every accessor is a dict; a value that
\* is false in `if value:` is skipped, the others lose a leading 'body/'
RECURSIVE extract_field_refs_from_accessors(_)
extract_field_refs_from_accessors(accessors) ==
    IF accessors = <<>> THEN <<>>
    ELSE LET value == Head(accessors).value
             rest  == extract_field_refs_from_accessors(Tail(accessors))
         IN  IF PyTruthy(value) THEN <<StripBodyPrefix(value)>> \o rest ELSE rest

\* result['field_ref'] = field_refs[0]; result['field_path'] = field_refs
\* when there are several; a key the result already has keeps its old value
\* unless it is assigned here
\* variant: field_ref is taken from the last accessor instead of the first
OverlayFieldRefs_Last(res, field_refs) ==
    IF field_refs = <<>> THEN res
    ELSE IF Len(field_refs) > 1
         THEN [field_ref |-> field_refs[Len(field_refs)], field_path |-> field_refs] @@ res
         ELSE [field_ref |-> field_refs[1]] @@ res

OverlayFieldRefs(res, field_refs) ==
    IF field_refs = <<>> THEN res
    ELSE IF Len(field_refs) > 1
         THEN [field_ref |-> field_refs[1], field_path |-> field_refs] @@ res
         ELSE [field_ref |-> field_refs[1]] @@ res

\* isinstance(ast, dict): the nodes the transformer builds as dicts
IsAstDict(ast) == "type" \in DOMAIN ast

\* the function_call branch before the accessors are looked at
FunctionCallInfo(func_name, args) ==
    LET arg0 == IF args # <<>> THEN args[1] ELSE PyNone
    IN  CASE func_name \in {s_triggerBody, s_triggerOutputs} ->
                [source_type |-> "trigger", function |-> func_name]
          [] func_name = s_variables ->
                [source_type |-> "variable", variable_name |-> arg0]
          [] func_name \in {s_outputs, s_body} ->
                [source_type |-> "output", step_name |-> arg0,
                 function |-> func_name]
          [] func_name = s_parameters ->
                [source_type |-> "parameter", parameter_name |-> arg0]
          [] func_name = s_item ->
                [source_type |-> "item", function |-> func_name]
          [] OTHER ->
                [source_type |-> "function", function |-> func_name,
                 arguments |-> args]

RECURSIVE extract_semantic_info(_)
extract_semantic_info(ast) ==
    IF ~IsAstDict(ast)
    THEN IF IsStr(ast)
         THEN [source_type |-> "identifier", identifier |-> ast]
         ELSE [source_type |-> "static", static_value |-> ast]
    ELSE CASE ast.type = "function_call" ->
                LET accessors == IF "accessors" \in DOMAIN ast
                                 THEN ast.accessors ELSE <<>>
                IN  OverlayFieldRefs(
                        FunctionCallInfo(ast.function, ast.arguments),
                        extract_field_refs_from_accessors(accessors))
           [] ast.type = "property_access" ->
                LET base_info ==
                        IF IsAstDict(ast.base)
                        THEN extract_semantic_info(ast.base)
                        ELSE IF IsStr(ast.base)
                             THEN [source_type |-> "identifier",
                                   identifier |-> ast.base]
                             ELSE [source_type |-> "unknown"]
                IN  OverlayFieldRefs(
                        base_info,
                        extract_field_refs_from_accessors(ast.accessors))
           [] OTHER -> [source_type |-> "unknown", ast_data |-> ast]


(***************************************************************************)
(* ExpressionParser.PATTERNS.  A pattern is a sequence of elements:        *)
(*   lit(s)   the characters s            ws     \s*                       *)
(*   optq     \??                         quote  ['"]                      *)
(*   group    ([^'"]+), captured                                           *)
(* In every pattern of the table adjacent elements match disjoint sets of  *)
(* characters, so greedy matching without backtracking is what re does.    *)
(***************************************************************************)
P_lit(s) == [k |-> "lit", s |-> s]
P_ws     == [k |-> "ws"]
P_optq   == [k |-> "optq"]
P_quote  == [k |-> "quote"]
P_group  == [k |-> "group"]

Quotes == {"'", "\""}

\* \s*\??\s*\[\s*['"]
P_bracket_open == <<P_ws, P_optq, P_ws, P_lit(<<"[">>), P_ws, P_quote>>
\* ['"]\s*\]
P_bracket_close == <<P_quote, P_ws, P_lit(<<"]">>)>>
\* \(\s*['"]([^'"]+)['"]\s*\)
\* variant: no \s* around the quoted argument
P_call_arg_NoWs == <<P_lit(<<"(">>), P_quote, P_group, P_quote, P_lit(<<")">>)>>

P_call_arg == <<P_lit(<<"(">>), P_ws, P_quote, P_group, P_quote, P_ws, P_lit(<<")">>)>>

PATTERNS ==
    [trigger_body |->
        <<P_lit(<<"@">> \o s_triggerBody \o <<"(", ")">>)>>
            \o P_bracket_open \o <<P_group>> \o P_bracket_close,
     trigger_outputs |->
        <<P_lit(<<"@">> \o s_triggerOutputs \o <<"(", ")">>)>>
            \o P_bracket_open \o <<P_lit(s_body_slash), P_group>> \o P_bracket_close,
     variables |->
        <<P_lit(<<"@">> \o s_variables)>> \o P_call_arg,
     outputs |->
        <<P_lit(<<"@">> \o s_outputs)>> \o P_call_arg,
     outputs_field |->
        <<P_lit(<<"@">> \o s_outputs)>> \o P_call_arg
            \o P_bracket_open \o <<P_lit(s_body_slash), P_group>> \o P_bracket_close,
     parameters |->
        <<P_lit(<<"@">> \o s_parameters)>> \o P_call_arg,
     body_field |->
        <<P_lit(<<"@">> \o s_body)>> \o P_call_arg
            \o P_bracket_open \o <<P_group>> \o P_bracket_close,
     item_field |->
        <<P_lit(<<"@">> \o s_item \o <<"(", ")">>)>>
            \o P_bracket_open \o <<P_group>> \o P_bracket_close]

NoMatch == [ok |-> FALSE]

\* the pattern elements from p on matched against s from index i on
RECURSIVE MatchFrom(_, _, _, _, _)
MatchFrom(pat, p, s, i, groups) ==
    IF p > Len(pat) THEN [ok |-> TRUE, groups |-> groups]
    ELSE LET e == pat[p]
         IN  CASE e.k = "lit" ->
                    IF i + Len(e.s) - 1 <= Len(s) /\ SubSeq(s, i, i + Len(e.s) - 1) = e.s
                    THEN MatchFrom(pat, p + 1, s, i + Len(e.s), groups)
                    ELSE NoMatch
               [] e.k = "ws" ->
                    MatchFrom(pat, p + 1, s, SkipIn(s, i, WhiteSpace), groups)
               [] e.k = "optq" ->
                    IF i <= Len(s) /\ s[i] = "?"
                    THEN MatchFrom(pat, p + 1, s, i + 1, groups)
                    ELSE MatchFrom(pat, p + 1, s, i, groups)
               [] e.k = "quote" ->
                    IF i <= Len(s) /\ s[i] \in Quotes
                    THEN MatchFrom(pat, p + 1, s, i + 1, groups)
                    ELSE NoMatch
               [] e.k = "group" ->
                    LET j == SkipTo(s, i, Quotes)
                    IN  IF j > i
                        THEN MatchFrom(pat, p + 1, s, j, Append(groups, SubSeq(s, i, j - 1)))
                        ELSE NoMatch

\* pattern.search(s): the leftmost position at which the pattern matches
Search(pat, s) ==
    LET hits == {i \in 1..Len(s) : MatchFrom(pat, 1, s, i, <<>>).ok}
    IN  IF hits = {} THEN NoMatch ELSE MatchFrom(pat, 1, s, Min(hits), <<>>)

(***************************************************************************)
(* ExpressionParser.parse_expression (the regex tier)                      *)
(***************************************************************************)
RECURSIVE NatToDigits(_)
NatToDigits(n) ==
    LET d == <<"0", "1", "2", "3", "4", "5", "6", "7", "8", "9">>[(n % 10) + 1]
    IN  IF n < 10 THEN <<d>> ELSE Append(NatToDigits(n \div 10), d)

\* str(value), for the values a field of the models' inputs can hold
str(value) ==
    CASE value.t = "str" -> value.s
      [] value.t = "int" ->
            IF value.n < 0 THEN <<"-">> \o NatToDigits(0 - value.n)
            ELSE NatToDigits(value.n)
      [] value.t = "none" -> <<"N", "o", "n", "e">>

\* is the text, stripped, an expression (starts with the sentinel)
StripStartsWithAt(s) == StartsWith(Strip(s), <<"@">>)

\* the rule table in the order parse_expression tries it
RegexRules(s) ==
    LET tb == Search(PATTERNS.trigger_body, s)
        to == Search(PATTERNS.trigger_outputs, s)
        va == Search(PATTERNS.variables, s)
        of == Search(PATTERNS.outputs_field, s)
        ou == Search(PATTERNS.outputs, s)
        bf == Search(PATTERNS.body_field, s)
        it == Search(PATTERNS.item_field, s)
        pa == Search(PATTERNS.parameters, s)
    IN  CASE tb.ok -> [source_type |-> "trigger", field_ref |-> PyStr(tb.groups[1]),
                       expression |-> PyStr(s)]
          [] ~tb.ok /\ to.ok ->
                      [source_type |-> "trigger", field_ref |-> PyStr(to.groups[1]),
                       expression |-> PyStr(s)]
          [] ~tb.ok /\ ~to.ok /\ va.ok ->
                      [source_type |-> "variable", variable_name |-> PyStr(va.groups[1]),
                       expression |-> PyStr(s)]
          [] ~tb.ok /\ ~to.ok /\ ~va.ok /\ of.ok ->
                      [source_type |-> "output", step_name |-> PyStr(of.groups[1]),
                       field_ref |-> PyStr(of.groups[2]), expression |-> PyStr(s)]
          [] ~tb.ok /\ ~to.ok /\ ~va.ok /\ ~of.ok /\ ou.ok ->
                      [source_type |-> "output", step_name |-> PyStr(ou.groups[1]),
                       expression |-> PyStr(s)]
          [] ~tb.ok /\ ~to.ok /\ ~va.ok /\ ~of.ok /\ ~ou.ok /\ bf.ok ->
                      [source_type |-> "output", step_name |-> PyStr(bf.groups[1]),
                       field_ref |-> PyStr(bf.groups[2]), expression |-> PyStr(s)]
          [] ~tb.ok /\ ~to.ok /\ ~va.ok /\ ~of.ok /\ ~ou.ok /\ ~bf.ok /\ it.ok ->
                      [source_type |-> "item", field_ref |-> PyStr(it.groups[1]),
                       expression |-> PyStr(s)]
          [] ~tb.ok /\ ~to.ok /\ ~va.ok /\ ~of.ok /\ ~ou.ok /\ ~bf.ok /\ ~it.ok /\ pa.ok ->
                      [source_type |-> "parameter", parameter_name |-> PyStr(pa.groups[1]),
                       expression |-> PyStr(s)]
          [] OTHER -> [source_type |-> "unknown", expression |-> PyStr(s)]

\* the static result for a value that is no expression
\* variant: the static value is the stripped text
StaticResult_Stripped(value, expression_str) ==
    [source_type |-> "static", static_value |-> PyStr(Strip(expression_str)),
     expression |-> PyStr(expression_str)]

StaticResult(value, expression_str) ==
    [source_type |-> "static", static_value |-> value,
     expression |-> PyStr(expression_str)]

\* the result for a value that is false in `if not expression:`
EmptyResult ==
    [source_type |-> "static", static_value |-> PyNone, expression |-> PyStr(<<>>)]

ExpressionParser_parse_expression(value) ==
    IF ~PyTruthy(value) THEN EmptyResult
    ELSE LET expression_str == str(value)
         IN  IF ~StripStartsWithAt(expression_str)
             THEN StaticResult(value, expression_str)
             ELSE RegexRules(expression_str)

(***************************************************************************)
(* AdvancedExpressionParser.parse_expression (AST tier, then regex tier)   *)
(***************************************************************************)
\* variant: a failed grammar parse is reported instead of handed to the regex tier
AdvancedExpressionParser_parse_expression_NoFallback(value, enabled) ==
    IF ~enabled THEN ExpressionParser_parse_expression(value)
    ELSE IF IsStr(value) /\ StripStartsWithAt(value.s)
         THEN IF ParseToAst(value.s).ok
              THEN [expression |-> value, ast |-> ParseToAst(value.s).ast]
                      @@ extract_semantic_info(ParseToAst(value.s).ast)
              ELSE [source_type |-> "parse_failure", expression |-> value]
         ELSE ExpressionParser_parse_expression(value)

\* variant: the regex rules are tried first, the grammar only where none matches
AdvancedExpressionParser_parse_expression_RegexFirst(value, enabled) ==
    IF ~enabled THEN ExpressionParser_parse_expression(value)
    ELSE IF IsStr(value) /\ StripStartsWithAt(value.s) /\ ParseToAst(value.s).ok
            /\ ExpressionParser_parse_expression(value).source_type = "unknown"
         THEN [expression |-> value, ast |-> ParseToAst(value.s).ast]
                  @@ extract_semantic_info(ParseToAst(value.s).ast)
         ELSE ExpressionParser_parse_expression(value)

AdvancedExpressionParser_parse_expression(value, enabled) ==
    IF ~enabled THEN ExpressionParser_parse_expression(value)
    ELSE IF IsStr(value) /\ StripStartsWithAt(value.s) /\ ParseToAst(value.s).ok
         THEN LET ast_result == ParseToAst(value.s).ast
              IN  [expression |-> value, ast |-> ast_result]
                      @@ extract_semantic_info(ast_result)
         ELSE ExpressionParser_parse_expression(value)

\* self.expr_parser.parse_expression(value) for the parser the caller holds
parse_expression(value, advanced, enabled) ==
    IF advanced THEN AdvancedExpressionParser_parse_expression(value, enabled)
    ELSE ExpressionParser_parse_expression(value)

\* ExpressionParser.is_expression
is_expression(value) == IsStr(value) /\ StripStartsWithAt(value.s)


(***************************************************************************)
(* VariableTracker.  self.variables maps a name to an entry dict; the      *)
(* entry dicts are objects: `heap` holds them and the map holds their      *)
(* index, so that who shares an entry with whom is part of the state.      *)
(***************************************************************************)
NewTracker == [variables |-> <<>>, heap |-> <<>>]

\* the dict register_variable stores
DeclaredEntry(action_name, initial_value, value_type) ==
    [declared_in |-> PyStr(action_name), initial_value |-> initial_value,
     value_type |-> value_type, modifications |-> <<>>]

\* the dict track_modification stores for a name it does not know
\* variant: an undeclared variable is recorded as declared somewhere unknown
UndeclaredEntry_Declared ==
    [declared_in |-> PyStr(<<"U", "n", "k", "n", "o", "w", "n">>), initial_value |-> PyNone,
     value_type |-> PyStr(<<"U", "n", "k", "n", "o", "w", "n">>),
     modifications |-> <<>>]

UndeclaredEntry ==
    [declared_in |-> PyNone, initial_value |-> PyNone,
     value_type |-> PyStr(<<"U", "n", "k", "n", "o", "w", "n">>),
     modifications |-> <<>>]

\* self.variables[var_name] = entry, entry being a new object
\* variant: the new entry takes over the modifications of the entry it replaces
StoreEntry_KeepModifications(T, var_name, entry) ==
    [variables |-> (var_name :> (Len(T.heap) + 1)) @@ T.variables,
     heap |-> Append(T.heap,
                IF var_name \in DOMAIN T.variables
                THEN [entry EXCEPT !.modifications =
                        T.heap[T.variables[var_name]].modifications]
                ELSE entry)]

StoreEntry(T, var_name, entry) ==
    [variables |-> (var_name :> (Len(T.heap) + 1)) @@ T.variables,
     heap |-> Append(T.heap, entry)]

\* variant: a name already present keeps its first declaration
register_variable_KeepFirst(T, var_name, action_name, initial_value, value_type) ==
    IF var_name \in DOMAIN T.variables THEN T
    ELSE StoreEntry(T, var_name, DeclaredEntry(action_name, initial_value, value_type))

register_variable(T, var_name, action_name, initial_value, value_type) ==
    StoreEntry(T, var_name, DeclaredEntry(action_name, initial_value, value_type))

\* modifications.append(m)
\* variant: the newest modification is put first
AppendModification_Front(modifications, m) == <<m>> \o modifications

AppendModification(modifications, m) == Append(modifications, m)

track_modification(T, var_name, action_name, operation, new_value) ==
    LET T1 == IF var_name \notin DOMAIN T.variables
              THEN StoreEntry(T, var_name, UndeclaredEntry)
              ELSE T
        id == T1.variables[var_name]
    IN  [T1 EXCEPT !.heap[id].modifications =
            AppendModification(@, [action |-> action_name,
                                   operation |-> operation,
                                   value |-> new_value])]

\* self.variables[var_name]
EntryOf(T, var_name) == T.heap[T.variables[var_name]]

\* {} when the name is unknown, else the three declaration keys
get_variable_source(T, var_name) ==
    IF var_name \notin DOMAIN T.variables THEN <<>>
    ELSE LET var_info == EntryOf(T, var_name)
         IN  [declared_in |-> var_info.declared_in,
              initial_value |-> var_info.initial_value,
              value_type |-> var_info.value_type]

get_modification_count(T, var_name) ==
    IF var_name \notin DOMAIN T.variables THEN 0
    ELSE Len(EntryOf(T, var_name).modifications)

\* self.variables.copy(): a new mapping from the same names to the same
\* entry objects
get_all_variables(T) == T.variables

is_variable_declared(T, var_name) == var_name \in DOMAIN T.variables


(***************************************************************************)
(* Deserialised JSON: dict.get, `in`, and what raises                      *)
(***************************************************************************)
HasKey(d, key) == \E i \in 1..Len(d.kv) : d.kv[i].k = key

\* d.get(key, default), d being a dict
dict_get(d, key, default) ==
    IF HasKey(d, key)
    THEN d.kv[CHOOSE i \in 1..Len(d.kv) : d.kv[i].k = key].v
    ELSE default

EmptyDict == PyDict(<<>>)
EmptyStr  == PyStr(<<>>)

\* hash(v) succeeds: v can be a dict key or a set member
Hashable(v) == "t" \in DOMAIN v /\ v.t \in {"str", "int", "float", "none"}

\* sub in s
Contains(s, sub) ==
    \E i \in 1..(Len(s) - Len(sub) + 1) : SubSeq(s, i, i + Len(sub) - 1) = sub

\* s.replace(sub, '')
RECURSIVE RemoveAll(_, _)
RemoveAll(s, sub) ==
    IF Len(s) < Len(sub) THEN s
    ELSE IF SubSeq(s, 1, Len(sub)) = sub
         THEN RemoveAll(DropPrefix(s, Len(sub)), sub)
         ELSE <<s[1]>> \o RemoveAll(Tail(s), sub)

(***************************************************************************)
(* UpdateActionAnalyzer                                                    *)
(***************************************************************************)
WriteOperationIds ==
    {PyStr(<<"U", "p", "d", "a", "t", "e", "R", "e", "c", "o", "r", "d">>), PyStr(<<"C", "r", "e", "a", "t", "e", "R", "e", "c", "o", "r", "d">>),
     PyStr(<<"U", "p", "d", "a", "t", "e", "O", "n", "l", "y", "R", "e", "c", "o", "r", "d">>), PyStr(<<"C", "r", "e", "a", "t", "e", "O", "n", "l", "y", "R", "e", "c", "o", "r", "d">>)}

\* variant: only the older operation id counts as an update
UpdateOperationIds_Legacy == {PyStr(<<"U", "p", "d", "a", "t", "e", "R", "e", "c", "o", "r", "d">>)}

UpdateOperationIds == {PyStr(<<"U", "p", "d", "a", "t", "e", "R", "e", "c", "o", "r", "d">>), PyStr(<<"U", "p", "d", "a", "t", "e", "O", "n", "l", "y", "R", "e", "c", "o", "r", "d">>)}

\* is_dataverse_update_action: an exception anywhere in it gives False
is_dataverse_update_action(action_def) ==
    /\ IsDict(action_def)
    /\ dict_get(action_def, <<"t", "y", "p", "e">>, EmptyStr) = PyStr(<<"O", "p", "e", "n", "A", "p", "i", "C", "o", "n", "n", "e", "c", "t", "i", "o", "n">>)
    /\ LET inputs == dict_get(action_def, <<"i", "n", "p", "u", "t", "s">>, EmptyDict)
       IN  /\ IsDict(inputs)
           /\ LET host == dict_get(inputs, <<"h", "o", "s", "t">>, EmptyDict)
              IN  /\ IsDict(host)
                  /\ dict_get(host, <<"o", "p", "e", "r", "a", "t", "i", "o", "n", "I", "d">>, EmptyStr) \in WriteOperationIds

\* variant: the 'item/' prefix stays on the field name
FieldName_Kept(field_key) == field_key

\* field_name: field_key without a leading 'item/'
FieldName(field_key) ==
    IF StartsWith(field_key, <<"i", "t", "e", "m", "/">>) THEN DropPrefix(field_key, 5) ELSE field_key

\* the keys field_info gets beyond field_name, source_type and expression
SourceDetails(p) ==
    CASE p.source_type = "static" ->
            [static_value |-> IF "static_value" \in DOMAIN p
                              THEN p.static_value ELSE PyNone]
      [] p.source_type = "variable" ->
            [source_detail |-> IF "variable_name" \in DOMAIN p
                               THEN p.variable_name ELSE EmptyStr]
      [] p.source_type = "output" ->
            IF "field_ref" \in DOMAIN p
            THEN [source_detail |-> IF "step_name" \in DOMAIN p
                                    THEN p.step_name ELSE EmptyStr,
                  source_field |-> p.field_ref]
            ELSE [source_detail |-> IF "step_name" \in DOMAIN p
                                    THEN p.step_name ELSE EmptyStr]
      [] p.source_type = "trigger" ->
            IF "field_ref" \in DOMAIN p
            THEN [source_field |-> p.field_ref]
            ELSE <<>>
      [] p.source_type = "parameter" ->
            [source_detail |-> IF "parameter_name" \in DOMAIN p
                               THEN p.parameter_name ELSE EmptyStr]
      [] OTHER -> <<>>

\* one pass of the loop over item.items()
\* field_info, p being the parsed field value
FieldInfoOf(field_key, p) ==
    SourceDetails(p) @@
        [field_name |-> FieldName(field_key),
         source_type |-> p.source_type,
         expression |-> p.expression]

FieldInfo(field_key, field_value, advanced, enabled) ==
    FieldInfoOf(field_key, parse_expression(field_value, advanced, enabled))

\* variant: every top-level parameter is taken for a field
ItemPrefixed_All(kv) == kv

\* the top-level parameters whose key starts with 'item/', in their order
ItemPrefixed(kv) == SelectSeq(kv, LAMBDA e : StartsWith(e.k, <<"i", "t", "e", "m", "/">>))

\* the dict the field loop runs over
ItemOf(parameters) ==
    LET item == dict_get(parameters, <<"i", "t", "e", "m">>, EmptyDict)
    IN  IF ~PyTruthy(item) THEN PyDict(ItemPrefixed(parameters.kv)) ELSE item

\* entity_name / entity_name_expression
EntityName(parameters) ==
    LET entity_name == dict_get(parameters, <<"e", "n", "t", "i", "t", "y", "N", "a", "m", "e">>, PyStr(<<"u", "n", "k", "n", "o", "w", "n">>))
    IN  IF is_expression(entity_name)
        THEN [entity_name |-> PyStr(<<"d", "y", "n", "a", "m", "i", "c">>), entity_name_expression |-> entity_name]
        ELSE [entity_name |-> entity_name, entity_name_expression |-> PyNone]

\* analyze_update_action: PyNone when it returns None, which it also does
\* when anything in it raises
analyze_update_action(action_name, action_def, advanced, enabled) ==
    IF ~is_dataverse_update_action(action_def) THEN PyNone
    ELSE LET inputs       == dict_get(action_def, <<"i", "n", "p", "u", "t", "s">>, EmptyDict)
             host         == dict_get(inputs, <<"h", "o", "s", "t">>, EmptyDict)
             operation_id == dict_get(host, <<"o", "p", "e", "r", "a", "t", "i", "o", "n", "I", "d">>, EmptyStr)
             parameters   == dict_get(inputs, <<"p", "a", "r", "a", "m", "e", "t", "e", "r", "s">>, EmptyDict)
         IN  IF ~IsDict(parameters) THEN PyNone
             ELSE IF ~IsDict(ItemOf(parameters)) THEN PyNone
             ELSE LET item == ItemOf(parameters)
                      e    == EntityName(parameters)
                  IN  [action_name |-> action_name,
                       action_type |-> IF operation_id \in UpdateOperationIds
                                       THEN <<"U", "p", "d", "a", "t", "e">> ELSE <<"C", "r", "e", "a", "t", "e">>,
                       entity_name |-> e.entity_name,
                       entity_name_expression |-> e.entity_name_expression,
                       modified_fields |->
                           [i \in 1..Len(item.kv) |->
                               FieldInfo(item.kv[i].k, item.kv[i].v, advanced, enabled)]]


(***************************************************************************)
(* CloudFlowParser.parse_clientdata.  The clientdata argument is           *)
(*   [kind |-> "empty"]               a value false in `if not clientdata` *)
(*   [kind |-> "invalid"]             text json.loads rejects              *)
(*   [kind |-> "json", data |-> v]    text json.loads turns into v         *)
(***************************************************************************)
ParseFailure(error) == [success |-> FALSE, error |-> error]

parse_clientdata(cd) ==
    CASE cd.kind = "empty"   -> ParseFailure("Empty clientdata")
      [] cd.kind = "invalid" -> ParseFailure("Invalid JSON")
      [] cd.kind = "json" ->
            IF ~IsDict(cd.data) THEN ParseFailure("Parse error")
            ELSE LET properties == dict_get(cd.data, <<"p", "r", "o", "p", "e", "r", "t", "i", "e", "s">>, EmptyDict)
                 IN  IF ~IsDict(properties) THEN ParseFailure("Parse error")
                     ELSE LET def == dict_get(properties, <<"d", "e", "f", "i", "n", "i", "t", "i", "o", "n">>, EmptyDict)
                          IN  IF ~PyTruthy(def)
                              THEN ParseFailure("No definition found in clientdata")
                              ELSE [success |-> TRUE, definition |-> def]

(***************************************************************************)
(* CloudFlowOperations.get_flow_trigger_type                               *)
(***************************************************************************)
\* the operation id of a trigger; [raised |-> TRUE] when a .get has no dict
TriggerOperationId(trigger) ==
    LET inputs == dict_get(trigger, <<"i", "n", "p", "u", "t", "s">>, EmptyDict)
    IN  IF ~IsDict(inputs) THEN [raised |-> TRUE]
        ELSE LET host == dict_get(inputs, <<"h", "o", "s", "t">>, EmptyDict)
             IN  IF ~IsDict(host) THEN [raised |-> TRUE]
                 ELSE [raised |-> FALSE,
                       value |-> dict_get(host, <<"o", "p", "e", "r", "a", "t", "i", "o", "n", "I", "d">>, EmptyStr)]

get_flow_trigger_type(def) ==
    IF ~IsDict(def) \/ ~HasKey(def, <<"t", "r", "i", "g", "g", "e", "r", "s">>) THEN <<"U", "n", "k", "n", "o", "w", "n">>
    ELSE LET triggers == dict_get(def, <<"t", "r", "i", "g", "g", "e", "r", "s">>, EmptyDict)
         IN  IF ~PyTruthy(triggers) THEN <<"U", "n", "k", "n", "o", "w", "n">>
             ELSE IF ~IsDict(triggers) \/ ~IsDict(triggers.kv[1].v) THEN <<"U", "n", "k", "n", "o", "w", "n">>
             ELSE LET trigger      == triggers.kv[1].v
                      trigger_type == dict_get(trigger, <<"t", "y", "p", "e">>, EmptyStr)
                      trigger_kind == dict_get(trigger, <<"k", "i", "n", "d">>, EmptyStr)
                      op           == TriggerOperationId(trigger)
                  IN  CASE trigger_type = PyStr(<<"R", "e", "q", "u", "e", "s", "t">>) /\ trigger_kind = PyStr(<<"B", "u", "t", "t", "o", "n">>) ->
                              <<"M", "a", "n", "u", "a", "l", " ", "(", "B", "u", "t", "t", "o", "n", ")">>
                        [] trigger_type = PyStr(<<"R", "e", "q", "u", "e", "s", "t">>) /\ trigger_kind # PyStr(<<"B", "u", "t", "t", "o", "n">>) ->
                              <<"M", "a", "n", "u", "a", "l">>
                        [] trigger_type = PyStr(<<"O", "p", "e", "n", "A", "p", "i", "C", "o", "n", "n", "e", "c", "t", "i", "o", "n", "W", "e", "b", "h", "o", "o", "k">>) ->
                              IF op.raised \/ ~IsStr(op.value) THEN <<"U", "n", "k", "n", "o", "w", "n">>
                              ELSE IF Contains(op.value.s, <<"S", "u", "b", "s", "c", "r", "i", "b", "e", "W", "e", "b", "h", "o", "o", "k", "T", "r", "i", "g", "g", "e", "r">>)
                                   THEN <<"A", "u", "t", "o", "m", "a", "t", "e", "d", " ", "-", " ", "W", "h", "e", "n", " ", "a", " ", "r", "e", "c", "o", "r", "d", " ", "i", "s", " ", "c", "r", "e", "a", "t", "e", "d", " ", "o", "r", " ", "u", "p", "d", "a", "t", "e", "d">>
                                   ELSE IF Contains(op.value.s, <<"O", "n", "N", "e", "w", "I", "t", "e", "m", "s">>)
                                        THEN <<"A", "u", "t", "o", "m", "a", "t", "e", "d", " ", "-", " ", "W", "h", "e", "n", " ", "a", " ", "r", "e", "c", "o", "r", "d", " ", "i", "s", " ", "c", "r", "e", "a", "t", "e", "d">>
                                        ELSE <<"A", "u", "t", "o", "m", "a", "t", "e", "d", " ", "(", "W", "e", "b", "h", "o", "o", "k", ")">>
                        [] trigger_type = PyStr(<<"R", "e", "c", "u", "r", "r", "e", "n", "c", "e">>) -> <<"S", "c", "h", "e", "d", "u", "l", "e", "d">>
                        [] OTHER -> str(trigger_type)


(***************************************************************************)
(* CloudFlowMetadataExtractor.extract_metadata                             *)
(***************************************************************************)
InitialResult(flow_id, flow_name) ==
    [flow_id |-> flow_id, flow_name |-> flow_name, flow_type |-> "Cloud Flow",
     trigger_type |-> <<"U", "n", "k", "n", "o", "w", "n">>, actions |-> <<>>, modified_fields |-> <<>>,
     read_fields |-> {}, variables |-> <<>>, entities |-> {}]

ModificationTypes ==
    {PyStr(<<"S", "e", "t", "V", "a", "r", "i", "a", "b", "l", "e">>), PyStr(<<"I", "n", "c", "r", "e", "m", "e", "n", "t", "V", "a", "r", "i", "a", "b", "l", "e">>),
     PyStr(<<"D", "e", "c", "r", "e", "m", "e", "n", "t", "V", "a", "r", "i", "a", "b", "l", "e">>), PyStr(<<"A", "p", "p", "e", "n", "d", "T", "o", "A", "r", "r", "a", "y", "V", "a", "r", "i", "a", "b", "l", "e">>),
     PyStr(<<"A", "p", "p", "e", "n", "d", "T", "o", "S", "t", "r", "i", "n", "g", "V", "a", "r", "i", "a", "b", "l", "e">>)}

Raised(T) == [raised |-> TRUE, tracker |-> T]
Tracked(T) == [raised |-> FALSE, tracker |-> T]

\* the InitializeVariable branch
TrackInitialize(T, action_name, action_def) ==
    LET inputs == dict_get(action_def, <<"i", "n", "p", "u", "t", "s">>, EmptyDict)
    IN  IF ~IsDict(inputs) THEN Raised(T)
        ELSE LET vs == dict_get(inputs, <<"v", "a", "r", "i", "a", "b", "l", "e", "s">>, PyList(<<>>))
             IN  IF ~PyTruthy(vs) THEN Tracked(T)
                 ELSE IF vs.t # "list" THEN Raised(T)
                 ELSE IF ~IsDict(vs.xs[1]) THEN Raised(T)
                 ELSE LET var_info  == vs.xs[1]
                          var_name  == dict_get(var_info, <<"n", "a", "m", "e">>, EmptyStr)
                          var_value == dict_get(var_info, <<"v", "a", "l", "u", "e">>, EmptyStr)
                          var_type  == dict_get(var_info, <<"t", "y", "p", "e">>, EmptyStr)
                      IN  IF ~PyTruthy(var_name) THEN Tracked(T)
                          ELSE IF ~Hashable(var_name) THEN Raised(T)
                          ELSE Tracked(register_variable(T, var_name, action_name,
                                                         var_value, var_type))

\* the SetVariable / IncrementVariable / ... branch
TrackModify(T, action_name, action_def, action_type) ==
    LET inputs == dict_get(action_def, <<"i", "n", "p", "u", "t", "s">>, EmptyDict)
    IN  IF ~IsDict(inputs) THEN Raised(T)
        ELSE LET var_name  == dict_get(inputs, <<"n", "a", "m", "e">>, EmptyStr)
                 var_value == dict_get(inputs, <<"v", "a", "l", "u", "e">>, EmptyStr)
             IN  IF ~PyTruthy(var_name) THEN Tracked(T)
                 ELSE IF ~Hashable(var_name) THEN Raised(T)
                 ELSE Tracked(track_modification(T, var_name, action_name,
                                  RemoveAll(action_type.s, <<"V", "a", "r", "i", "a", "b", "l", "e">>), var_value))

\* the variable bookkeeping of one action (action_def is a dict)
TrackVariables(T, action_name, action_def) ==
    LET action_type == dict_get(action_def, <<"t", "y", "p", "e">>, EmptyStr)
    IN  CASE action_type = PyStr(<<"I", "n", "i", "t", "i", "a", "l", "i", "z", "e", "V", "a", "r", "i", "a", "b", "l", "e">>) ->
                TrackInitialize(T, action_name, action_def)
          [] action_type \in ModificationTypes ->
                TrackModify(T, action_name, action_def, action_type)
          [] OTHER -> Tracked(T)

\* variant: the detail stays the bare variable name
DeclaredInDetail_NameOnly(source_detail, var_source) == source_detail

\* f"{source_detail} (declared in {var_source.get('declared_in', 'Unknown')})"
DeclaredInDetail(source_detail, var_source) ==
    PyStr(str(source_detail) \o <<" ", "(", "d", "e", "c", "l", "a", "r", "e", "d", " ", "i", "n", " ">> \o str(var_source.declared_in) \o <<")">>)

\* the dict appended to result['modified_fields'][field_name]
Contribution(action_name, field_info, source_detail) ==
    [action_name |-> action_name, source_type |-> field_info.source_type,
     source_detail |-> source_detail, expression |-> field_info.expression]

\* variant: the field keeps only its latest writer
AddContribution_Overwrite(modified_fields, field_name, c) ==
    (field_name :> <<c>>) @@ modified_fields

\* result['modified_fields'][field_name].append(c), the list created if new
AddContribution(modified_fields, field_name, c) ==
    IF field_name \in DOMAIN modified_fields
    THEN [modified_fields EXCEPT ![field_name] = Append(@, c)]
    ELSE (field_name :> <<c>>) @@ modified_fields

\* the loop over analysis['modified_fields'], from field i on
RECURSIVE MergeFields(_, _, _, _)
MergeFields(res, T, an, i) ==
    IF i > Len(an.modified_fields) THEN [raised |-> FALSE, result |-> res]
    ELSE LET field_info    == an.modified_fields[i]
             field_name    == field_info.field_name
             source_detail == IF "source_detail" \in DOMAIN field_info
                              THEN field_info.source_detail ELSE EmptyStr
             lookup        == field_info.source_type = "variable" /\ PyTruthy(source_detail)
         IN  IF lookup /\ ~Hashable(source_detail)
             THEN [raised |-> TRUE,
                   result |-> IF field_name \in DOMAIN res.modified_fields THEN res
                              ELSE [res EXCEPT !.modified_fields = (field_name :> <<>>) @@ @]]
             ELSE LET var_source == IF lookup THEN get_variable_source(T, source_detail)
                                    ELSE <<>>
                      detail == IF var_source # <<>>
                                THEN DeclaredInDetail(source_detail, var_source)
                                ELSE source_detail
                  IN  MergeFields(
                        [res EXCEPT
                            !.modified_fields =
                                AddContribution(@, field_name,
                                    Contribution(an.action_name, field_info, detail)),
                            !.read_fields =
                                IF "source_field" \in DOMAIN field_info
                                THEN @ \cup {field_info.source_field} ELSE @],
                        T, an, i + 1)

\* variant: every analysed entity name is recorded
AddEntity_Always(entities, entity_name) == entities \cup {entity_name}

\* entities.add(entity_name) unless it is a placeholder
AddEntity(entities, entity_name) ==
    IF entity_name # PyStr(<<"d", "y", "n", "a", "m", "i", "c">>) /\ entity_name # PyStr(<<"u", "n", "k", "n", "o", "w", "n">>)
    THEN entities \cup {entity_name}
    ELSE entities

\* the rest of a pass once the variable bookkeeping (tv) and the analysis
\* (an) are known
MergeAnalysis(res1, T, tv, an) ==
    IF tv.raised
    THEN [raised |-> TRUE, result |-> res1, tracker |-> T, analysis |-> PyNone]
    ELSE IF an = PyNone
    THEN [raised |-> FALSE, result |-> res1, tracker |-> tv.tracker,
          analysis |-> an]
    ELSE IF AddEntity({}, an.entity_name) # {} /\ ~Hashable(an.entity_name)
    THEN [raised |-> TRUE, result |-> res1, tracker |-> tv.tracker,
          analysis |-> an]
    ELSE LET m == MergeFields(
                    [res1 EXCEPT !.entities = AddEntity(@, an.entity_name)],
                    tv.tracker, an, 1)
         IN  [raised |-> m.raised, result |-> m.result,
              tracker |-> tv.tracker, analysis |-> an]

\* one pass of the loop over actions.items():
\* [raised, result, tracker, analysis]
ProcessActionBody(res, T, action_name, action_def, advanced, enabled) ==
    LET res1 == [res EXCEPT !.actions = Append(@, action_name)]
    IN  IF ~IsDict(action_def)
        THEN [raised |-> TRUE, result |-> res1, tracker |-> T, analysis |-> PyNone]
        ELSE MergeAnalysis(res1, T, TrackVariables(T, action_name, action_def),
                 analyze_update_action(action_name, action_def, advanced, enabled))

\* variable_tracker.get_all_variables() as it is when extract_metadata returns
ExportVariables(T) == [n \in DOMAIN T.variables |-> T.heap[T.variables[n]]]

\* variant: the handler returns the result without recording the failure
WithParseError_Dropped(res, error) == res

\* result['parse_error'] = ...
WithParseError(res, error) == [parse_error |-> error] @@ res


(***************************************************************************)
(* Bounds and inputs of parse_expression                                   *)
(***************************************************************************)
MaxNameLen == 2
MaxWs == 1

\* all sequences over S of length lo..hi
SeqsOf(S, lo, hi) == UNION {[1..k -> S] : k \in lo..hi}

\* names of fields, variables and steps: non-empty, without quote characters
NameChars == {"a", "b", "/"}
Names     == SeqsOf(NameChars, 1, MaxNameLen)
StepNames == {<<"S">>, <<"S", "t", "e", "p", "1">>}

\* runs of insignificant whitespace
WsChars == {" ", "\t"}
WsRuns  == SeqsOf(WsChars, 0, MaxWs)

q == <<"'">>

\* @outputs('S')?['body/a']?['b']
OutputsChainExpr(S, a, b) ==
    <<"@", "o", "u", "t", "p", "u", "t", "s", "(">> \o q \o S \o q \o <<")", "?", "[">> \o q \o <<"b", "o", "d", "y", "/">> \o a \o q \o <<"]", "?", "[">>
        \o q \o b \o q \o <<"]">>

\* @triggerOutputs()?['body/foo']
TriggerOutputsExpr(foo) ==
    <<"@", "t", "r", "i", "g", "g", "e", "r", "O", "u", "t", "p", "u", "t", "s", "(", ")", "?", "[">> \o q \o <<"b", "o", "d", "y", "/">> \o foo \o q \o <<"]">>

\* @variables( 'x' ) with whitespace w1, w2 around the argument
VariablesExpr(w1, x, w2) ==
    <<"@", "v", "a", "r", "i", "a", "b", "l", "e", "s", "(">> \o w1 \o q \o x \o q \o w2 \o <<")">>

\* @triggerBody()?['f']
TriggerBodyExpr(f) == <<"@", "t", "r", "i", "g", "g", "e", "r", "B", "o", "d", "y", "(", ")", "?", "[">> \o q \o f \o q \o <<"]">>

\* values that are no expression: no '@' in front
PlainValues ==
    {<<>>, <<"J", "o", "h", "n", " ", "D", "o", "e">>, <<"a", "@", "b">>, <<" ", "a">>} \cup Names

\* values with whitespace before the sentinel
PaddedExpressions ==
    {w \o VariablesExpr(<<>>, x, <<>>) : w \in WsRuns \ {<<>>}, x \in {<<"a">>}}

\* expressions neither tier has a rule for
OtherExpressions == {<<"@">>, <<"@", "@", "a">>, <<"@", "c", "o", "n", "c", "a", "t", "(", "'", "a", "'", ",", "'", "b", "'", ")">>, <<"@", "a", ".", "b">>}

\* a canonical shape with other text after it, or before it
VariablesThenText == VariablesExpr(<<>>, <<"a">>, <<>>) \o <<" ", "+", " ", "1">>
TextThenVariables == <<"@", "f", "o", "o", " ">> \o VariablesExpr(<<>>, <<"a">>, <<>>)
TriggerBodyThenText == TriggerBodyExpr(<<"a">>) \o <<"]">>

\* literals behind the sentinel
LiteralExpressions == { <<"@", "5">>, <<"@", "'", "l", "i", "t", "'">>, <<"@", "t", "r", "u", "e">> }

\* @(outputs('S')?['a'])?['b']: accessors on a parenthesized call that has its own
ParenthesizedChainExpr(S, a, b) ==
    <<"@", "(", "o", "u", "t", "p", "u", "t", "s", "(">> \o q \o S \o q \o <<")", "?", "[">> \o q \o a \o q \o <<"]", ")", "?", "[">> \o q \o b \o q \o <<"]">>

ParenthesizedExpressions ==
    {ParenthesizedChainExpr(S, a, b) : S \in StepNames, a \in {<<"a">>}, b \in {<<"b">>}}

\* @outputs('S')[sel]?['b'] for a selector written sel
SelectorChainExpr(sel) ==
    <<"@", "o", "u", "t", "p", "u", "t", "s", "(", "'", "S", "'", ")", "[">> \o sel \o <<"]", "?", "[", "'", "b", "'", "]">>

\* the selectors: the empty string, the numbers 0 and 1, an identifier
SelectorTexts == { <<"'", "'">>, <<"0">>, <<"1">>, <<"x">> }

SelectorExpressions == {SelectorChainExpr(sel) : sel \in SelectorTexts}

\* selector strings, without and with the body/ prefix
FieldSelectors == { <<"a">>, s_body_slash \o <<"a">> }

\* the shapes the regex tier has a rule for
CanonicalExpressions ==
    {TriggerBodyExpr(f) : f \in FieldSelectors}
    \cup {TriggerOutputsExpr(<<"a">>), VariablesExpr(<<>>, <<"a">>, <<>>),
          <<"@", "o", "u", "t", "p", "u", "t", "s", "(", "'", "S", "'", ")">>, <<"@", "p", "a", "r", "a", "m", "e", "t", "e", "r", "s", "(", "'", "p", "'", ")">>}
    \cup { <<"@", "o", "u", "t", "p", "u", "t", "s", "(", "'", "S", "'", ")", "?", "[", "'">> \o f \o <<"'", "]">> : f \in FieldSelectors}
    \cup { <<"@", "b", "o", "d", "y", "(", "'", "S", "'", ")", "?", "[", "'">> \o f \o <<"'", "]">> : f \in FieldSelectors}
    \cup { <<"@", "i", "t", "e", "m", "(", ")", "?", "[", "'">> \o f \o <<"'", "]">> : f \in FieldSelectors}

ParseInputs ==
    {PyStr(s) : s \in
        PlainValues \cup PaddedExpressions \cup OtherExpressions
        \cup SelectorExpressions \cup CanonicalExpressions
        \cup {VariablesThenText, TextThenVariables, TriggerBodyThenText}
        \cup LiteralExpressions \cup ParenthesizedExpressions
        \cup {OutputsChainExpr(S, a, b) : S \in StepNames, a \in Names, b \in Names}
        \cup {TriggerOutputsExpr(foo) : foo \in Names}
        \cup {TriggerBodyExpr(f) : f \in Names}
        \cup {VariablesExpr(w1, x, w2) : w1 \in WsRuns, x \in Names, w2 \in WsRuns}}

NoResult == [called |-> FALSE]

(***************************************************************************)
(* Idle values of the parts a specification does not exercise              *)
(***************************************************************************)
NoClientdata == [kind |-> "none"]
NoCall == [pc |-> "idle"]

ParseIdle ==
    /\ expression = EmptyStr
    /\ use_advanced = TRUE
    /\ ast_enabled = TRUE
    /\ parsed = NoResult
    /\ reparsed = NoResult

\* get_all_variables was not called
NoSnapshot == [taken |-> FALSE]

TrackerIdle ==
    /\ variables = <<>>
    /\ heap = <<>>
    /\ history = <<>>
    /\ ret = [method |-> "none"]
    /\ snapshot = NoSnapshot

\* no call of get_attibuteid, a RateLimitTracker as constructed
NoAttrCall == [pc |-> "idle"]

NewRateLimitTracker ==
    [total_requests |-> 0, total_429_errors |-> 0, total_retries |-> 0,
     total_wait_time |-> 0, request_history |-> <<>>]

NothingObserved ==
    [calls |-> 0, requests |-> 0, call_requests |-> 0, slept |-> 0, retries |-> 0]

ApiIdle ==
    /\ attr = NoAttrCall
    /\ rate_limit_tracker = NewRateLimitTracker
    /\ observed = NothingObserved

ExtractIdle ==
    /\ clientdata = NoClientdata
    /\ pc = "idle"
    /\ definition = PyNone
    /\ idx = 0
    /\ result = <<>>
    /\ tracker = NewTracker
    /\ analysis = PyNone
    /\ other = NoCall

(***************************************************************************)
(* SpecParse: one parser, one call of parse_expression                     *)
(***************************************************************************)
InitParse ==
    /\ expression \in ParseInputs
    /\ use_advanced \in BOOLEAN
    /\ ast_enabled = TRUE       \* Lark accepts EXPRESSION_GRAMMAR
    /\ parsed = NoResult
    /\ reparsed = NoResult
    /\ TrackerIdle
    /\ ExtractIdle
    /\ ApiIdle

\* variant: a call leaves the AST tier of its parser switched off
ParseExpression_OneShot ==
    /\ parsed = NoResult
    /\ parsed' = parse_expression(expression, use_advanced, ast_enabled)
    /\ ast_enabled' = FALSE
    /\ UNCHANGED <<expression, use_advanced, reparsed, trackerVars, extractVars, apiVars>>

ParseExpression ==
    /\ parsed = NoResult
    /\ parsed' = parse_expression(expression, use_advanced, ast_enabled)
    /\ UNCHANGED <<expression, use_advanced, ast_enabled, reparsed, trackerVars, extractVars, apiVars>>

NextParse == ParseExpression

SpecParse == InitParse /\ [][NextParse]_vars


(***************************************************************************)
(* Claims about parse_expression (checked under SpecParse)                 *)
(***************************************************************************)
\* the first character of s that is no whitespace, if any, is not '@'
NoSentinelAfterBlanks(s) ==
    \A i \in 1..Len(s) : s[i] = "@" => \E j \in 1..(i - 1) : s[j] \notin WhiteSpace

C4_AccessorChainComposes ==
    (use_advanced /\ parsed # NoResult
        /\ StartsWith(expression.s, <<"@">> \o s_outputs)) =>
        \A S \in StepNames, a \in Names, b \in Names :
            expression = PyStr(OutputsChainExpr(S, a, b))
            => /\ parsed.source_type = "output"
               /\ parsed.step_name = PyStr(S)
               /\ parsed.field_ref = PyStr(a)
               /\ "field_path" \in DOMAIN parsed
               /\ parsed.field_path = <<PyStr(a), PyStr(b)>>

C4_Witness ==
    /\ use_advanced
    /\ expression = PyStr(OutputsChainExpr(<<"S", "t", "e", "p", "1">>, <<"a">>, <<"b">>))
    /\ parsed # NoResult
    /\ parsed.field_path = <<PyStr(<<"a">>), PyStr(<<"b">>)>>

\* C5: @triggerOutputs()?['body/foo'] resolves to source_type trigger with
\* field_ref exactly foo; the body/ prefix is not retained.
C5_BodyPrefixStripped ==
    \A foo \in Names :
        (parsed # NoResult /\ expression = PyStr(TriggerOutputsExpr(foo)))
        => /\ parsed.source_type = "trigger"
           /\ "field_ref" \in DOMAIN parsed
           /\ parsed.field_ref = PyStr(foo)

C5_Witness ==
    /\ use_advanced
    /\ expression = PyStr(TriggerOutputsExpr(<<"a", "b">>))
    /\ parsed # NoResult
    /\ parsed.field_ref = PyStr(<<"a", "b">>)

\* C6: @variables('x') resolves to source_type variable with variable_name x,
\* whatever whitespace surrounds the argument inside the parentheses.
C6_VariablesIgnoresWhitespace ==
    (parsed # NoResult /\ StartsWith(expression.s, <<"@">> \o s_variables)) =>
        \A w1 \in WsRuns, x \in Names, w2 \in WsRuns :
            expression = PyStr(VariablesExpr(w1, x, w2))
            => /\ parsed.source_type = "variable"
               /\ parsed.variable_name = PyStr(x)

C6_Witness ==
    /\ \E w1 \in WsRuns \ {<<>>}, w2 \in WsRuns \ {<<>>} :
          expression = PyStr(VariablesExpr(w1, <<"a">>, w2))
    /\ parsed # NoResult
    /\ parsed.variable_name = PyStr(<<"a">>)


(***************************************************************************)
(* SpecTracker: one VariableTracker driven by arbitrary callers            *)
(***************************************************************************)
MaxCalls == 3

TrackerNames   == {PyStr(<<"c", "o", "u", "n", "t", "e", "r">>), PyStr(<<"x">>)}
\* what an InitializeVariable action hands to register_variable
Declarations ==
    { [action_name |-> <<"D", "e", "c", "l", "a", "r", "e">>, initial_value |-> PyInt(0),
       value_type |-> PyStr(<<"I", "n", "t", "e", "g", "e", "r">>)],
      [action_name |-> <<"R", "e", "d", "e", "c", "l", "a", "r", "e">>, initial_value |-> PyStr(<<"n", "/", "a">>),
       value_type |-> PyStr(<<"S", "t", "r", "i", "n", "g">>)] }
ModifyActions  == { <<"I", "n", "c", "r", "e", "m", "e", "n", "t", "_", "1">>, <<"I", "n", "c", "r", "e", "m", "e", "n", "t", "_", "2">> }
TrackerOps     == { <<"I", "n", "c", "r", "e", "m", "e", "n", "t">>, <<"S", "e", "t">> }

ThisTracker == [variables |-> variables, heap |-> heap]

Returned(method) == [method |-> method]

InitTracker ==
    /\ variables = NewTracker.variables
    /\ heap = NewTracker.heap
    /\ history = <<>>
    /\ ret = Returned("none")
    /\ snapshot = NoSnapshot
    /\ ParseIdle
    /\ ExtractIdle
    /\ ApiIdle

RegisterVariable ==
    /\ Len(history) < MaxCalls
    /\ \E var_name \in TrackerNames, d \in Declarations :
          LET T == register_variable(ThisTracker, var_name, d.action_name,
                                     d.initial_value, d.value_type)
          IN  /\ variables' = T.variables
              /\ heap' = T.heap
              /\ history' = Append(history,
                    [call |-> "register_variable", var_name |-> var_name,
                     action_name |-> d.action_name,
                     initial_value |-> d.initial_value,
                     value_type |-> d.value_type])
    /\ ret' = Returned("none")
    /\ UNCHANGED <<snapshot, parseVars, extractVars, apiVars>>

TrackModification ==
    /\ Len(history) < MaxCalls
    /\ \E var_name \in TrackerNames, action_name \in ModifyActions,
          operation \in TrackerOps :
          LET T == track_modification(ThisTracker, var_name, action_name,
                                      operation, PyInt(1))
          IN  /\ variables' = T.variables
              /\ heap' = T.heap
              /\ history' = Append(history,
                    [call |-> "track_modification", var_name |-> var_name,
                     action_name |-> action_name, operation |-> operation,
                     value |-> PyInt(1)])
    /\ ret' = Returned("none")
    /\ UNCHANGED <<snapshot, parseVars, extractVars, apiVars>>

GetVariableSource ==
    /\ \E var_name \in TrackerNames :
          ret' = [method |-> "get_variable_source", var_name |-> var_name,
                  source |-> get_variable_source(ThisTracker, var_name)]
    /\ UNCHANGED <<variables, heap, history, snapshot, parseVars, extractVars, apiVars>>

GetModificationCount ==
    /\ \E var_name \in TrackerNames :
          ret' = [method |-> "get_modification_count", var_name |-> var_name,
                  count |-> get_modification_count(ThisTracker, var_name)]
    /\ UNCHANGED <<variables, heap, history, snapshot, parseVars, extractVars, apiVars>>

\* the caller keeps the returned mapping; `seen` is what the caller could
\* read through it on return
GetAllVariables ==
    /\ LET mapping == get_all_variables(ThisTracker)
       IN  snapshot' = [taken |-> TRUE, mapping |-> mapping,
                        seen |-> [var_name \in DOMAIN mapping |->
                                     heap[mapping[var_name]]]]
    /\ ret' = Returned("get_all_variables")
    /\ UNCHANGED <<variables, heap, history, parseVars, extractVars, apiVars>>

NextTracker ==
    \/ RegisterVariable
    \/ TrackModification
    \/ GetVariableSource
    \/ GetModificationCount
    \/ GetAllVariables

SpecTracker == InitTracker /\ [][NextTracker]_vars

(***************************************************************************)
(* Claims about the VariableTracker (checked under SpecTracker)            *)
(***************************************************************************)
\* the positions of history at which var_name was registered
RegisteredAt(var_name) ==
    {i \in 1..Len(history) :
        history[i].call = "register_variable" /\ history[i].var_name = var_name}

\* the modifications tracked for var_name after position start, in call order
TrackedAfter(var_name, start) ==
    LET calls == SelectSeq(SubSeq(history, start + 1, Len(history)),
                    LAMBDA c : c.call = "track_modification" /\ c.var_name = var_name)
    IN  [i \in 1..Len(calls) |->
            [action |-> calls[i].action_name, operation |-> calls[i].operation,
             value |-> calls[i].value]]

\* C9: after register_variable for a name followed by n track_modification
\* calls for it, get_modification_count is n and the modifications list holds
\* the n entries in the order of the calls.
C9_ModificationsInCallOrder ==
    \A var_name \in TrackerNames :
        RegisteredAt(var_name) # {} =>
            LET expected == TrackedAfter(var_name, Max(RegisteredAt(var_name)))
            IN  /\ get_modification_count(ThisTracker, var_name) = Len(expected)
                /\ EntryOf(ThisTracker, var_name).modifications = expected
                /\ (ret.method = "get_modification_count" /\ ret.var_name = var_name)
                      => ret.count = Len(expected)

C9_Witness ==
    /\ history = << [call |-> "register_variable", var_name |-> PyStr(<<"c", "o", "u", "n", "t", "e", "r">>),
                     action_name |-> <<"D", "e", "c", "l", "a", "r", "e">>, initial_value |-> PyInt(0),
                     value_type |-> PyStr(<<"I", "n", "t", "e", "g", "e", "r">>)],
                    [call |-> "track_modification", var_name |-> PyStr(<<"c", "o", "u", "n", "t", "e", "r">>),
                     action_name |-> <<"I", "n", "c", "r", "e", "m", "e", "n", "t", "_", "1">>, operation |-> <<"I", "n", "c", "r", "e", "m", "e", "n", "t">>,
                     value |-> PyInt(1)],
                    [call |-> "track_modification", var_name |-> PyStr(<<"c", "o", "u", "n", "t", "e", "r">>),
                     action_name |-> <<"I", "n", "c", "r", "e", "m", "e", "n", "t", "_", "2">>, operation |-> <<"I", "n", "c", "r", "e", "m", "e", "n", "t">>,
                     value |-> PyInt(1)] >>
    /\ ret.method = "get_modification_count"
    /\ ret.var_name = PyStr(<<"c", "o", "u", "n", "t", "e", "r">>)
    /\ ret.count = 2

\* C10: track_modification for a name never registered creates an entry with
\* declared_in None and appends the modification; get_variable_source for the
\* name then returns a record whose declared_in is None.
C10_UndeclaredUseTolerated ==
    \A var_name \in TrackerNames :
        (RegisteredAt(var_name) = {} /\ TrackedAfter(var_name, 0) # <<>>) =>
            /\ is_variable_declared(ThisTracker, var_name)
            /\ EntryOf(ThisTracker, var_name).declared_in = PyNone
            /\ EntryOf(ThisTracker, var_name).modifications = TrackedAfter(var_name, 0)
            /\ get_variable_source(ThisTracker, var_name) # <<>>
            /\ get_variable_source(ThisTracker, var_name).declared_in = PyNone
            /\ (ret.method = "get_variable_source" /\ ret.var_name = var_name)
                  => (ret.source # <<>> /\ ret.source.declared_in = PyNone)

C10_Witness ==
    /\ RegisteredAt(PyStr(<<"x">>)) = {}
    /\ Len(TrackedAfter(PyStr(<<"x">>), 0)) = 2
    /\ ret.method = "get_variable_source"
    /\ ret.var_name = PyStr(<<"x">>)
    /\ ret.source.declared_in = PyNone


(***************************************************************************)
(* Spec: one call of extract_metadata, one step per pass of its loop       *)
(***************************************************************************)
MaxActions == 2

Obj(kv) == PyDict(kv)

\* a Dataverse connector action
WriteAction(operation_id, parameters) ==
    Obj(<<KV(<<"t", "y", "p", "e">>, PyStr(<<"O", "p", "e", "n", "A", "p", "i", "C", "o", "n", "n", "e", "c", "t", "i", "o", "n">>)),
          KV(<<"i", "n", "p", "u", "t", "s">>, Obj(<<KV(<<"h", "o", "s", "t">>, Obj(<<KV(<<"o", "p", "e", "r", "a", "t", "i", "o", "n", "I", "d">>, PyStr(operation_id))>>)),
                               KV(<<"p", "a", "r", "a", "m", "e", "t", "e", "r", "s">>, parameters)>>))>>)

Init_counter ==
    KV(<<"I", "n", "i", "t", "_", "c", "o", "u", "n", "t", "e", "r">>,
       Obj(<<KV(<<"t", "y", "p", "e">>, PyStr(<<"I", "n", "i", "t", "i", "a", "l", "i", "z", "e", "V", "a", "r", "i", "a", "b", "l", "e">>)),
             KV(<<"i", "n", "p", "u", "t", "s">>, Obj(<<KV(<<"v", "a", "r", "i", "a", "b", "l", "e", "s">>,
                 PyList(<<Obj(<<KV(<<"n", "a", "m", "e">>, PyStr(<<"c", "o", "u", "n", "t", "e", "r">>)),
                                KV(<<"t", "y", "p", "e">>, PyStr(<<"I", "n", "t", "e", "g", "e", "r">>)),
                                KV(<<"v", "a", "l", "u", "e">>, PyInt(0))>>)>>))>>))>>))

Increment_counter ==
    KV(<<"I", "n", "c", "r", "e", "m", "e", "n", "t", "_", "c", "o", "u", "n", "t", "e", "r">>,
       Obj(<<KV(<<"t", "y", "p", "e">>, PyStr(<<"I", "n", "c", "r", "e", "m", "e", "n", "t", "V", "a", "r", "i", "a", "b", "l", "e">>)),
             KV(<<"i", "n", "p", "u", "t", "s">>, Obj(<<KV(<<"n", "a", "m", "e">>, PyStr(<<"c", "o", "u", "n", "t", "e", "r">>)),
                                  KV(<<"v", "a", "l", "u", "e">>, PyInt(1))>>))>>))

Update_contact ==
    KV(<<"U", "p", "d", "a", "t", "e", "_", "c", "o", "n", "t", "a", "c", "t">>,
       WriteAction(<<"U", "p", "d", "a", "t", "e", "O", "n", "l", "y", "R", "e", "c", "o", "r", "d">>,
           Obj(<<KV(<<"e", "n", "t", "i", "t", "y", "N", "a", "m", "e">>, PyStr(<<"c", "o", "n", "t", "a", "c", "t", "s">>)),
                 KV(<<"i", "t", "e", "m">>, Obj(<<KV(<<"i", "t", "e", "m", "/", "f", "i", "r", "s", "t", "n", "a", "m", "e">>,
                                       PyStr(TriggerBodyExpr(<<"f", "i", "r", "s", "t", "n", "a", "m", "e">>)))>>))>>)))

TargetEntityExpr == VariablesExpr(<<>>, <<"t", "a", "r", "g", "e", "t", "E", "n", "t", "i", "t", "y">>, <<>>)

Create_dynamic ==
    KV(<<"C", "r", "e", "a", "t", "e", "_", "d", "y", "n", "a", "m", "i", "c">>,
       WriteAction(<<"C", "r", "e", "a", "t", "e", "R", "e", "c", "o", "r", "d">>,
           Obj(<<KV(<<"e", "n", "t", "i", "t", "y", "N", "a", "m", "e">>, PyStr(TargetEntityExpr)),
                 KV(<<"i", "t", "e", "m", "/", "f", "u", "l", "l", "n", "a", "m", "e">>, PyStr(<<"J", "o", "h", "n", " ", "D", "o", "e">>)),
                 KV(<<"i", "t", "e", "m", "/", "f", "i", "r", "s", "t", "n", "a", "m", "e">>, PyStr(VariablesExpr(<<>>, <<"c", "o", "u", "n", "t", "e", "r">>, <<>>)))>>)))

Update_unnamed ==
    KV(<<"U", "p", "d", "a", "t", "e", "_", "u", "n", "n", "a", "m", "e", "d">>,
       WriteAction(<<"U", "p", "d", "a", "t", "e", "R", "e", "c", "o", "r", "d">>,
           Obj(<<KV(<<"i", "t", "e", "m">>, Obj(<<KV(<<"f", "i", "r", "s", "t", "n", "a", "m", "e">>,
                     PyStr(TriggerOutputsExpr(<<"f", "i", "r", "s", "t", "n", "a", "m", "e">>)))>>))>>)))

\* an empty item object next to an 'item/' parameter
Update_empty_item ==
    KV(<<"U", "p", "d", "a", "t", "e", "_", "e", "m", "p", "t", "y", "_", "i", "t", "e", "m">>,
       WriteAction(<<"U", "p", "d", "a", "t", "e", "R", "e", "c", "o", "r", "d">>,
           Obj(<<KV(<<"e", "n", "t", "i", "t", "y", "N", "a", "m", "e">>, PyStr(<<"c", "o", "n", "t", "a", "c", "t", "s">>)),
                 KV(<<"i", "t", "e", "m">>, Obj(<<>>)),
                 KV(<<"i", "t", "e", "m", "/", "c", "i", "t", "y">>, PyStr(<<"P", "a", "r", "i", "s">>))>>)))

Bad_action == KV(<<"B", "a", "d", "_", "a", "c", "t", "i", "o", "n">>, PyStr(<<"n", "o", "t", "a", "d", "i", "c", "t">>))

\* a Dataverse connector action that reads
List_contacts ==
    KV(<<"L", "i", "s", "t", "_", "c", "o", "n", "t", "a", "c", "t", "s">>,
       WriteAction(<<"L", "i", "s", "t", "R", "e", "c", "o", "r", "d", "s">>,
           Obj(<<KV(<<"e", "n", "t", "i", "t", "y", "N", "a", "m", "e">>, PyStr(<<"c", "o", "n", "t", "a", "c", "t", "s">>)),
                 KV(<<"i", "t", "e", "m", "/", "f", "i", "r", "s", "t", "n", "a", "m", "e">>, PyStr(<<"J", "a", "n", "e">>))>>)))

Create_only ==
    KV(<<"C", "r", "e", "a", "t", "e", "_", "o", "n", "l", "y">>,
       WriteAction(<<"C", "r", "e", "a", "t", "e", "O", "n", "l", "y", "R", "e", "c", "o", "r", "d">>,
           Obj(<<KV(<<"e", "n", "t", "i", "t", "y", "N", "a", "m", "e">>, PyStr(<<"a", "c", "c", "o", "u", "n", "t", "s">>)),
                 KV(<<"i", "t", "e", "m", "/", "n", "a", "m", "e">>, PyStr(<<"C", "o", "n", "t", "o", "s", "o">>))>>)))

\* an action of another type with the inputs of a record update
Http_update ==
    KV(<<"H", "t", "t", "p", "_", "u", "p", "d", "a", "t", "e">>,
       Obj(<<KV(<<"t", "y", "p", "e">>, PyStr(<<"H", "t", "t", "p">>)),
             KV(<<"i", "n", "p", "u", "t", "s">>, Obj(<<KV(<<"h", "o", "s", "t">>, Obj(<<KV(<<"o", "p", "e", "r", "a", "t", "i", "o", "n", "I", "d">>, PyStr(<<"U", "p", "d", "a", "t", "e", "R", "e", "c", "o", "r", "d">>))>>)),
                                  KV(<<"p", "a", "r", "a", "m", "e", "t", "e", "r", "s">>,
                                     Obj(<<KV(<<"e", "n", "t", "i", "t", "y", "N", "a", "m", "e">>, PyStr(<<"c", "o", "n", "t", "a", "c", "t", "s">>)),
                                           KV(<<"i", "t", "e", "m", "/", "f", "i", "r", "s", "t", "n", "a", "m", "e">>, PyStr(<<"J", "a", "n", "e">>))>>))>>))>>))

ItemExpr(f) == <<"@", "i", "t", "e", "m", "(", ")", "?", "[">> \o q \o f \o q \o <<"]">>

\* a write inside a loop: one field from the loop item, one from a chain of
\* accessors on a step's outputs
Update_in_loop ==
    KV(<<"U", "p", "d", "a", "t", "e", "_", "i", "n", "_", "l", "o", "o", "p">>,
       WriteAction(<<"U", "p", "d", "a", "t", "e", "R", "e", "c", "o", "r", "d">>,
           Obj(<<KV(<<"e", "n", "t", "i", "t", "y", "N", "a", "m", "e">>, PyStr(<<"c", "o", "n", "t", "a", "c", "t", "s">>)),
                 KV(<<"i", "t", "e", "m", "/", "l", "a", "s", "t", "n", "a", "m", "e">>, PyStr(ItemExpr(<<"l", "a", "s", "t", "n", "a", "m", "e">>))),
                 KV(<<"i", "t", "e", "m", "/", "c", "i", "t", "y">>,
                    PyStr(OutputsChainExpr(<<"G", "e", "t", "_", "r", "o", "w">>, <<"a", "d", "d", "r", "e", "s", "s">>, <<"c", "i", "t", "y">>)))>>)))

ActionPool ==
    {Init_counter, Increment_counter, Update_contact, Create_dynamic,
     Update_unnamed, Bad_action, List_contacts, Create_only, Http_update,
     Update_in_loop, Update_empty_item}

\* the action maps: up to MaxActions different actions, in any order
ActionMaps ==
    {kv \in SeqsOf(ActionPool, 0, MaxActions) :
        \A i, j \in 1..Len(kv) : i # j => kv[i] # kv[j]}

ButtonTrigger ==
    Obj(<<KV(<<"m", "a", "n", "u", "a", "l">>, Obj(<<KV(<<"t", "y", "p", "e">>, PyStr(<<"R", "e", "q", "u", "e", "s", "t">>)),
                               KV(<<"k", "i", "n", "d">>, PyStr(<<"B", "u", "t", "t", "o", "n">>))>>))>>)

Workflow(def) ==
    [kind |-> "json",
     data |-> Obj(<<KV(<<"p", "r", "o", "p", "e", "r", "t", "i", "e", "s">>, Obj(<<KV(<<"d", "e", "f", "i", "n", "i", "t", "i", "o", "n">>, def)>>))>>)]

ClientdataInputs ==
    {[kind |-> "empty"], [kind |-> "invalid"],
     [kind |-> "json", data |-> PyList(<<>>)],
     [kind |-> "json", data |-> Obj(<<KV(<<"p", "r", "o", "p", "e", "r", "t", "i", "e", "s">>, Obj(<<>>))>>)],
     Workflow(Obj(<<>>)),
     Workflow(Obj(<<KV(<<"t", "r", "i", "g", "g", "e", "r", "s">>, ButtonTrigger)>>)),
     Workflow(Obj(<<KV(<<"t", "r", "i", "g", "g", "e", "r", "s">>, ButtonTrigger), KV(<<"a", "c", "t", "i", "o", "n", "s">>, PyList(<<>>))>>))}
    \cup {Workflow(Obj(<<KV(<<"t", "r", "i", "g", "g", "e", "r", "s">>, ButtonTrigger), KV(<<"a", "c", "t", "i", "o", "n", "s">>, Obj(kv))>>)) :
            kv \in ActionMaps}


FlowId   == <<"0", "0", "0", "0", "0", "0", "0", "0", "-", "0", "0", "0", "0", "-", "0", "0", "0", "0", "-", "0", "0", "0", "0", "-", "0", "0", "0", "0", "0", "0", "0", "0", "0", "0", "0", "1">>
FlowName == <<"F", "l", "o", "w">>

\* definition.get('actions', {})
ActionsOf(def) == dict_get(def, <<"a", "c", "t", "i", "o", "n", "s">>, EmptyDict)

\* str(e) of an exception the outer handler catches
ErrorText == "exception"

Init ==
    /\ clientdata \in ClientdataInputs
    /\ use_advanced \in BOOLEAN
    /\ ast_enabled = TRUE
    /\ expression = EmptyStr
    /\ parsed = NoResult
    /\ reparsed = NoResult
    /\ TrackerIdle
    /\ ApiIdle
    /\ pc = "start"
    /\ definition = PyNone
    /\ idx = 0
    /\ result = InitialResult(FlowId, FlowName)
    /\ tracker = NewTracker
    /\ analysis = PyNone
    /\ other = NoCall

\* from the entry of the try block to the head of the loop
BeginExtract ==
    /\ pc = "start"
    /\ LET parse_result == parse_clientdata(clientdata)
       IN  IF ~parse_result.success
           THEN /\ result' = WithParseError(result, parse_result.error)
                /\ pc' = "done"
                /\ UNCHANGED definition
           ELSE LET def  == parse_result.definition
                    res1 == [result EXCEPT !.trigger_type = get_flow_trigger_type(def)]
                IN  /\ definition' = def
                    /\ IF ~IsDict(def) \/ ~IsDict(ActionsOf(def))
                       THEN /\ result' = WithParseError(res1, ErrorText)
                            /\ pc' = "done"
                       ELSE /\ result' = res1
                            /\ pc' = "loop"
    /\ UNCHANGED <<clientdata, idx, tracker, analysis, other, parseVars, trackerVars, apiVars>>

\* the assignments one pass leaves behind; a raise ends in the outer handler
Commit(r) ==
    /\ tracker' = r.tracker
    /\ analysis' = IF r.raised /\ r.analysis = PyNone THEN analysis ELSE r.analysis
    /\ IF r.raised
       THEN /\ result' = WithParseError(r.result, ErrorText)
            /\ pc' = "done"
       ELSE /\ result' = r.result
            /\ pc' = "loop"

\* one pass of `for action_name, action_def in actions.items()`
ProcessAction ==
    /\ pc = "loop"
    /\ idx < Len(ActionsOf(definition).kv)
    /\ LET e == ActionsOf(definition).kv[idx + 1]
       IN  Commit(ProcessActionBody(result, tracker, e.k, e.v, use_advanced, ast_enabled))
    /\ idx' = idx + 1
    /\ UNCHANGED <<clientdata, definition, other, parseVars, trackerVars, apiVars>>

\* the loop is exhausted: export the variables and return
FinishExtract ==
    /\ pc = "loop"
    /\ idx = Len(ActionsOf(definition).kv)
    /\ result' = [result EXCEPT !.variables = ExportVariables(tracker)]
    /\ pc' = "done"
    /\ UNCHANGED <<clientdata, definition, idx, tracker, analysis, other, parseVars, trackerVars, apiVars>>

Next ==
    \/ BeginExtract
    \/ ProcessAction
    \/ FinishExtract

Spec == Init /\ [][Next]_vars

(***************************************************************************)
(* Claims about extract_metadata and analyze_update_action (under Spec)    *)
(***************************************************************************)
Returned_result == pc = "done"

HasParseError == "parse_error" \in DOMAIN result

\* the definition object of the clientdata, PyNone when there is none
DefinitionObject ==
    IF clientdata.kind = "json" /\ IsDict(clientdata.data)
       /\ IsDict(dict_get(clientdata.data, <<"p", "r", "o", "p", "e", "r", "t", "i", "e", "s">>, EmptyDict))
    THEN dict_get(dict_get(clientdata.data, <<"p", "r", "o", "p", "e", "r", "t", "i", "e", "s">>, EmptyDict),
                  <<"d", "e", "f", "i", "n", "i", "t", "i", "o", "n">>, PyNone)
    ELSE PyNone

\* C2: for a workflow whose definition object has no 'actions' key, the
\* returned result has parse_error set, modified_fields empty and actions
\* an empty list.
C2_NoActionsKeyIsParseError ==
    (Returned_result /\ IsDict(DefinitionObject)
        /\ ~HasKey(DefinitionObject, <<"a", "c", "t", "i", "o", "n", "s">>)) =>
            /\ HasParseError
            /\ result.modified_fields = <<>>
            /\ result.actions = <<>>

\* C3: in every returned result, parse_error set implies that actions,
\* modified_fields, read_fields, entities and variables are empty and
\* trigger_type is 'Unknown'.
C3_ParseErrorMeansDefaults ==
    (Returned_result /\ HasParseError) =>
        /\ result.actions = <<>>
        /\ result.modified_fields = <<>>
        /\ result.read_fields = {}
        /\ result.entities = {}
        /\ result.variables = <<>>
        /\ result.trigger_type = <<"U", "n", "k", "n", "o", "w", "n">>

\* the action the last pass of the loop worked on
LastAction == ActionsOf(definition).kv[idx]

\* C7: for the action with operation id UpdateOnlyRecord, entityName
\* 'contacts' and item {'item/firstname': "@triggerBody()?['firstname']"},
\* analyze_update_action returns action_type Update, entity_name contacts and
\* exactly one modified field, named firstname, with source_type trigger and
\* source field firstname.
C7_UpdateContactAnalysis ==
    (idx > 0 /\ LastAction = Update_contact) =>
        /\ analysis # PyNone
        /\ analysis.action_name = Update_contact.k
        /\ analysis.action_type = <<"U", "p", "d", "a", "t", "e">>
        /\ analysis.entity_name = PyStr(<<"c", "o", "n", "t", "a", "c", "t", "s">>)
        /\ Len(analysis.modified_fields) = 1
        /\ analysis.modified_fields[1].field_name = <<"f", "i", "r", "s", "t", "n", "a", "m", "e">>
        /\ analysis.modified_fields[1].source_type = "trigger"
        /\ analysis.modified_fields[1].source_field = PyStr(<<"f", "i", "r", "s", "t", "n", "a", "m", "e">>)

C7_Witness ==
    /\ idx = 2
    /\ LastAction = Update_contact
    /\ analysis # PyNone
    /\ analysis.modified_fields[1].field_name = <<"f", "i", "r", "s", "t", "n", "a", "m", "e">>
    /\ ~use_advanced

\* the entityName parameter of a write action, PyNone for any other action
EntityNameParameter(action_def) ==
    IF is_dataverse_update_action(action_def)
    THEN dict_get(dict_get(dict_get(action_def, <<"i", "n", "p", "u", "t", "s">>, EmptyDict),
                           <<"p", "a", "r", "a", "m", "e", "t", "e", "r", "s">>, EmptyDict), <<"e", "n", "t", "i", "t", "y", "N", "a", "m", "e">>, PyNone)
    ELSE PyNone

\* C8: for a write action whose entityName is an expression the analysis has
\* entity_name 'dynamic' and entity_name_expression the raw expression, the
\* pass does not fail, and the result's entities never hold 'dynamic' or
\* 'unknown'.
C8_DynamicEntityNotRecorded ==
    /\ (idx > 0 /\ is_expression(EntityNameParameter(LastAction.v))) =>
            /\ analysis # PyNone
            /\ analysis.entity_name = PyStr(<<"d", "y", "n", "a", "m", "i", "c">>)
            /\ analysis.entity_name_expression = EntityNameParameter(LastAction.v)
            /\ ~HasParseError
    /\ PyStr(<<"d", "y", "n", "a", "m", "i", "c">>) \notin result.entities
    /\ PyStr(<<"u", "n", "k", "n", "o", "w", "n">>) \notin result.entities

C8_Witness ==
    /\ Returned_result
    /\ idx = 2
    /\ ActionsOf(definition).kv = <<Update_contact, Create_dynamic>>
    /\ analysis.entity_name = PyStr(<<"d", "y", "n", "a", "m", "i", "c">>)
    /\ analysis.entity_name_expression = PyStr(TargetEntityExpr)
    /\ result.entities = {PyStr(<<"c", "o", "n", "t", "a", "c", "t", "s">>)}
    /\ ~HasParseError


\* the names some call of history was made for
NamesUsed == {history[i].var_name : i \in 1..Len(history)}

\* the latest registration of var_name in history
LatestRegistration(var_name) == history[Max(RegisteredAt(var_name))]

\* C11: over any sequence of register_variable and track_modification calls
\* the set of names in the registry never shrinks (every name a call was made
\* for stays present), and a name registered again holds the declared_in,
\* initial_value and value_type of its latest registration.
C11_RegistryGrowsLastWriteWins ==
    /\ [][DOMAIN variables \subseteq DOMAIN variables']_vars
    /\ [](/\ NamesUsed \subseteq DOMAIN variables
          /\ \A var_name \in TrackerNames :
                RegisteredAt(var_name) # {} =>
                    LET e == EntryOf(ThisTracker, var_name)
                        r == LatestRegistration(var_name)
                    IN  /\ e.declared_in = PyStr(r.action_name)
                        /\ e.initial_value = r.initial_value
                        /\ e.value_type = r.value_type)

C11_Witness ==
    /\ Len(history) = 3
    /\ Cardinality(RegisteredAt(PyStr(<<"x">>))) = 2
    /\ history[1].call = "register_variable"
    /\ history[1].action_name = <<"D", "e", "c", "l", "a", "r", "e">>
    /\ history[2].call = "track_modification"
    /\ history[3].action_name = <<"R", "e", "d", "e", "c", "l", "a", "r", "e">>
    /\ EntryOf(ThisTracker, PyStr(<<"x">>)).declared_in = PyStr(<<"R", "e", "d", "e", "c", "l", "a", "r", "e">>)
    /\ EntryOf(ThisTracker, PyStr(<<"x">>)).value_type = PyStr(<<"S", "t", "r", "i", "n", "g">>)


\* the type and the operation id an action definition states
StatedType(action_def) == dict_get(action_def, <<"t", "y", "p", "e">>, PyNone)

StatedOperationId(action_def) ==
    LET inputs == dict_get(action_def, <<"i", "n", "p", "u", "t", "s">>, EmptyDict)
    IN  IF IsDict(inputs) /\ IsDict(dict_get(inputs, <<"h", "o", "s", "t">>, EmptyDict))
        THEN dict_get(dict_get(inputs, <<"h", "o", "s", "t">>, EmptyDict), <<"o", "p", "e", "r", "a", "t", "i", "o", "n", "I", "d">>, PyNone)
        ELSE PyNone

QualifyingWrite(action_def) ==
    /\ StatedType(action_def) = PyStr(<<"O", "p", "e", "n", "A", "p", "i", "C", "o", "n", "n", "e", "c", "t", "i", "o", "n">>)
    /\ \/ StatedOperationId(action_def) = PyStr(<<"U", "p", "d", "a", "t", "e", "R", "e", "c", "o", "r", "d">>)
       \/ StatedOperationId(action_def) = PyStr(<<"C", "r", "e", "a", "t", "e", "R", "e", "c", "o", "r", "d">>)
       \/ StatedOperationId(action_def) = PyStr(<<"U", "p", "d", "a", "t", "e", "O", "n", "l", "y", "R", "e", "c", "o", "r", "d">>)
       \/ StatedOperationId(action_def) = PyStr(<<"C", "r", "e", "a", "t", "e", "O", "n", "l", "y", "R", "e", "c", "o", "r", "d">>)

\* C12: an action is a record write exactly when its type is
\* OpenApiConnection and its operationId is UpdateRecord, CreateRecord,
\* UpdateOnlyRecord or CreateOnlyRecord; for any other action the analysis is
\* None, and for a write action_type is Update for UpdateRecord and
\* UpdateOnlyRecord and Create otherwise.
C12_WriteActionsClassified ==
    (idx > 0 /\ IsDict(LastAction.v)) =>
        /\ is_dataverse_update_action(LastAction.v) <=> QualifyingWrite(LastAction.v)
        /\ ~QualifyingWrite(LastAction.v) => analysis = PyNone
        /\ QualifyingWrite(LastAction.v) =>
              /\ analysis # PyNone
              /\ analysis.action_type =
                    IF \/ StatedOperationId(LastAction.v) = PyStr(<<"U", "p", "d", "a", "t", "e", "R", "e", "c", "o", "r", "d">>)
                       \/ StatedOperationId(LastAction.v) = PyStr(<<"U", "p", "d", "a", "t", "e", "O", "n", "l", "y", "R", "e", "c", "o", "r", "d">>)
                    THEN <<"U", "p", "d", "a", "t", "e">> ELSE <<"C", "r", "e", "a", "t", "e">>

C12_Witness ==
    /\ idx = 2
    /\ ActionsOf(definition).kv = <<Update_contact, Http_update>>
    /\ analysis = PyNone
    /\ result.actions = <<Update_contact.k, Http_update.k>>
    /\ DOMAIN result.modified_fields = { <<"f", "i", "r", "s", "t", "n", "a", "m", "e">> }


\* who wrote field and from what kind of source, for a list of contributions
Writers(contributions) ==
    [i \in 1..Len(contributions) |->
        [action_name |-> contributions[i].action_name,
         source_type |-> contributions[i].source_type]]

\* the fields named field that the action at position i of the map writes
WritesOf(i, field) ==
    LET e  == ActionsOf(definition).kv[i]
        an == IF IsDict(e.v)
              THEN analyze_update_action(e.k, e.v, use_advanced, ast_enabled)
              ELSE PyNone
    IN  IF an = PyNone THEN <<>>
        ELSE LET written == SelectSeq(an.modified_fields,
                                      LAMBDA fi : fi.field_name = field)
             IN  [j \in 1..Len(written) |->
                    [action_name |-> e.k, source_type |-> written[j].source_type]]

\* the writers of field among the first n actions of the map, in map order
RECURSIVE WritersUpTo(_, _)
WritersUpTo(n, field) ==
    IF n = 0 THEN <<>> ELSE WritersUpTo(n - 1, field) \o WritesOf(n, field)

FieldsWatched == { <<"f", "i", "r", "s", "t", "n", "a", "m", "e">>, <<"f", "u", "l", "l", "n", "a", "m", "e">>, <<"n", "a", "m", "e">>, <<"l", "a", "s", "t", "n", "a", "m", "e">>, <<"c", "i", "t", "y">> }

IsPrefix(s, t) == Len(s) <= Len(t) /\ SubSeq(t, 1, Len(s)) = s

\* C13: modified_fields[field] holds one contribution per writing action, in
\* the order of the action map, each with its own action_name and source_type,
\* and a later writer only appends: no contribution is overwritten or dropped.
C13_ContributionsAccumulateInOrder ==
    /\ [](\A field \in FieldsWatched :
            /\ field \in DOMAIN result.modified_fields
                  <=> WritersUpTo(idx, field) # <<>>
            /\ field \in DOMAIN result.modified_fields
                  => Writers(result.modified_fields[field]) = WritersUpTo(idx, field))
    /\ [][\A field \in DOMAIN result.modified_fields :
            /\ field \in DOMAIN result.modified_fields'
            /\ IsPrefix(result.modified_fields[field], result.modified_fields'[field])]_vars

C13_Witness ==
    /\ Returned_result
    /\ idx = 2
    /\ ActionsOf(definition).kv = <<Update_contact, Create_dynamic>>
    /\ Writers(result.modified_fields[<<"f", "i", "r", "s", "t", "n", "a", "m", "e">>]) =
          << [action_name |-> Update_contact.k, source_type |-> "trigger"],
             [action_name |-> Create_dynamic.k, source_type |-> "variable"] >>


\* the provenance records of the fields the action at position i writes
ProvenanceOf(i) ==
    LET action_def == ActionsOf(definition).kv[i].v
    IN  IF ~IsDict(action_def) \/ ~QualifyingWrite(action_def) THEN <<>>
        ELSE LET item == ItemOf(dict_get(dict_get(action_def, <<"i", "n", "p", "u", "t", "s">>, EmptyDict),
                                         <<"p", "a", "r", "a", "m", "e", "t", "e", "r", "s">>, EmptyDict))
             IN  [j \in 1..Len(item.kv) |->
                    parse_expression(item.kv[j].v, use_advanced, ast_enabled)]

\* the field references a provenance record carries
ReferencesOf(p) ==
    IF p.source_type \in {"trigger", "output", "item"} /\ "field_ref" \in DOMAIN p
    THEN {p.field_ref} \cup
         (IF "field_path" \in DOMAIN p
          THEN {p.field_path[k] : k \in 1..Len(p.field_path)} ELSE {})
    ELSE {}

\* C14: after extraction read_fields contains the field reference, and the
\* segments of the field_path, of every written field whose provenance is a
\* trigger, output or item source.
C14_ReadFieldsHoldEveryReference ==
    (Returned_result /\ ~HasParseError) =>
        \A i \in 1..idx :
            \A j \in 1..Len(ProvenanceOf(i)) :
                ReferencesOf(ProvenanceOf(i)[j]) \subseteq result.read_fields


\* the classifications a record can carry
SourceTypes ==
    {"trigger", "variable", "output", "parameter", "item", "static",
     "function", "identifier", "unknown"}

\* no rule of the regex tier finds its shape in s
NoRuleMatches(s) == \A name \in DOMAIN PATTERNS : ~Search(PATTERNS[name], s).ok

\* the regex tier is what classifies the value
RegexTierDecides ==
    /\ is_expression(expression)
    /\ ~use_advanced \/ ~ast_enabled \/ ~ParseToAst(expression.s).ok

\* C15: parse_expression always returns a record with one source_type of the
\* fixed set; when the grammar parse fails the regex rules classify the
\* expression, and when no rule matches the result is unknown and carries
\* the original expression.
C15_AlwaysClassified ==
    parsed # NoResult =>
        /\ "source_type" \in DOMAIN parsed
        /\ parsed.source_type \in SourceTypes
        /\ RegexTierDecides =>
              /\ parsed = RegexRules(expression.s)
              /\ NoRuleMatches(expression.s) =>
                    /\ parsed.source_type = "unknown"
                    /\ parsed.expression = expression

C15_Witness ==
    /\ parsed # NoResult
    /\ use_advanced
    /\ expression = PyStr(<<"@", "@", "a">>)
    /\ ~ParseToAst(expression.s).ok
    /\ parsed = [source_type |-> "unknown", expression |-> PyStr(<<"@", "@", "a">>)]


\* the keys every result dict is created with
ResultKeys ==
    {"flow_id", "flow_name", "flow_type", "trigger_type", "actions",
     "modified_fields", "read_fields", "variables", "entities"}

\* the clientdata cannot be read as a workflow: empty, invalid JSON, not an
\* object, or without a definition
Unreadable ==
    \/ clientdata.kind \in {"empty", "invalid"}
    \/ ~IsDict(DefinitionObject)
    \/ DefinitionObject = EmptyDict

\* the definition's actions are not a map of action objects
MalformedActions ==
    /\ ~Unreadable
    /\ HasKey(DefinitionObject, <<"a", "c", "t", "i", "o", "n", "s">>)
    /\ LET actions == dict_get(DefinitionObject, <<"a", "c", "t", "i", "o", "n", "s">>, EmptyDict)
       IN  \/ ~IsDict(actions)
           \/ \E i \in 1..Len(actions.kv) : ~IsDict(actions.kv[i].v)

\* C16: extract_metadata raises for no clientdata: the call always goes on to
\* return a result dict, and for empty clientdata, invalid JSON, a missing
\* definition or malformed actions the failure is its parse_error field.
C16_FailuresAreReturned ==
    /\ pc \in {"start", "loop", "done"}
    /\ pc = "loop" => /\ IsDict(definition) /\ IsDict(ActionsOf(definition))
                      /\ idx <= Len(ActionsOf(definition).kv)
                      /\ ~HasParseError
    /\ ResultKeys \subseteq DOMAIN result
    /\ (Returned_result /\ (Unreadable \/ MalformedActions)) => HasParseError

C16_Witness ==
    /\ Returned_result
    /\ idx = 2
    /\ ActionsOf(definition).kv = <<Update_contact, Bad_action>>
    /\ MalformedActions
    /\ HasParseError


(***************************************************************************)
(* SpecIsolation: two calls of extract_metadata on one extractor, their    *)
(* steps interleaved in every order.  The first call is the one of Spec;   *)
(* the second keeps its locals in `other`.                                 *)
(***************************************************************************)

\* the locals of a call right after lines 446-460
StartOfCall(cd) ==
    [clientdata |-> cd, pc |-> "start", definition |-> PyNone, idx |-> 0,
     result |-> InitialResult(FlowId, FlowName), tracker |-> NewTracker,
     analysis |-> PyNone]

\* the head of the loop, or the handler where the actions cannot be iterated
EnterLoop(l) ==
    IF ~IsDict(l.definition) \/ ~IsDict(ActionsOf(l.definition))
    THEN [l EXCEPT !.result = WithParseError(l.result, ErrorText), !.pc = "done"]
    ELSE [l EXCEPT !.pc = "loop"]

\* from the entry of the try block to the head of the loop
BeginLocals(l, parse_result) ==
    IF ~parse_result.success
    THEN [l EXCEPT !.result = WithParseError(l.result, parse_result.error),
                   !.pc = "done"]
    ELSE EnterLoop([l EXCEPT !.definition = parse_result.definition,
                             !.result.trigger_type =
                                 get_flow_trigger_type(parse_result.definition)])

\* the assignments one pass leaves behind; a raise ends in the outer handler
CommitLocals(l, r) ==
    [l EXCEPT !.tracker = r.tracker,
              !.analysis = IF r.raised /\ r.analysis = PyNone THEN l.analysis
                           ELSE r.analysis,
              !.result = IF r.raised THEN WithParseError(r.result, ErrorText)
                         ELSE r.result,
              !.pc = IF r.raised THEN "done" ELSE "loop",
              !.idx = l.idx + 1]

\* one step of a call whose name variable_tracker is bound to T
ExtractStep(l, T, advanced, enabled) ==
    IF l.pc = "start"
    THEN BeginLocals(l, parse_clientdata(l.clientdata))
    ELSE IF l.idx < Len(ActionsOf(l.definition).kv)
    THEN CommitLocals(l, ProcessActionBody(l.result, T,
                             ActionsOf(l.definition).kv[l.idx + 1].k,
                             ActionsOf(l.definition).kv[l.idx + 1].v,
                             advanced, enabled))
    ELSE [l EXCEPT !.result.variables = ExportVariables(T), !.pc = "done"]

\* variant: every call works on the tracker the extractor created last
variable_tracker_Shared(own, latest) == latest

\* what the name variable_tracker denotes inside a call: the tracker that
\* call created, whatever other calls have created since
variable_tracker(own, latest) == own

\* one step of the second call
OtherStep ==
    /\ other.pc \in {"start", "loop"}
    /\ other' = ExtractStep(other, variable_tracker(other.tracker, tracker),
                            use_advanced, ast_enabled)
    /\ UNCHANGED <<clientdata, pc, definition, idx, result, tracker, analysis,
                   parseVars, trackerVars, apiVars>>

\* the actions the two workflows are made of
IsolationPool == {Init_counter, Increment_counter, Update_contact, Create_dynamic}

IsolationWorkflow(kv) ==
    Workflow(Obj(<<KV(<<"t", "r", "i", "g", "g", "e", "r", "s">>, ButtonTrigger), KV(<<"a", "c", "t", "i", "o", "n", "s">>, Obj(kv))>>))

IsolationInputs ==
    {IsolationWorkflow(kv) : kv \in {m \in ActionMaps :
                                       \A i \in 1..Len(m) : m[i] \in IsolationPool}}

OtherInputs ==
    {IsolationWorkflow(<<Create_dynamic>>),
     IsolationWorkflow(<<Increment_counter, Create_dynamic>>),
     IsolationWorkflow(<<Init_counter, Create_dynamic>>)}

InitIsolation ==
    /\ clientdata \in IsolationInputs
    /\ use_advanced \in BOOLEAN
    /\ ast_enabled = TRUE
    /\ expression = EmptyStr
    /\ parsed = NoResult
    /\ reparsed = NoResult
    /\ TrackerIdle
    /\ ApiIdle
    /\ pc = "start"
    /\ definition = PyNone
    /\ idx = 0
    /\ result = InitialResult(FlowId, FlowName)
    /\ tracker = NewTracker
    /\ analysis = PyNone
    /\ other \in {StartOfCall(cd) : cd \in OtherInputs}

NextIsolation ==
    \/ BeginExtract
    \/ ProcessAction
    \/ FinishExtract
    \/ OtherStep

SpecIsolation == InitIsolation /\ [][NextIsolation]_vars

\* the call made alone, from its entry to its return
RECURSIVE RunAlone(_, _, _)
RunAlone(l, advanced, enabled) ==
    IF l.pc = "done" THEN l
    ELSE RunAlone(ExtractStep(l, l.tracker, advanced, enabled), advanced, enabled)

\* the parts of a result the claim is about
Provenance(r) ==
    [variables |-> r.variables, modified_fields |-> r.modified_fields,
     read_fields |-> r.read_fields, entities |-> r.entities]

\* C17: each call works on its own fresh tracker: whatever the other call on
\* the same extractor has done so far, in any interleaving, the variables,
\* modified_fields, read_fields and entities a call returns are those it
\* returns when it runs alone on the same clientdata.
C17_ExtractionsIsolated ==
    /\ pc = "done" =>
         Provenance(result) =
         Provenance(RunAlone(StartOfCall(clientdata), use_advanced, ast_enabled).result)
    /\ other.pc = "done" =>
         Provenance(other.result) =
         Provenance(RunAlone(StartOfCall(other.clientdata), use_advanced, ast_enabled).result)

\* the first call has declared counter; the second call, whose workflow
\* increments it without declaring it, returns it as undeclared
C17_Witness ==
    /\ pc = "done" /\ other.pc = "done"
    /\ ActionsOf(definition).kv = <<Init_counter, Create_dynamic>>
    /\ other.clientdata = IsolationWorkflow(<<Increment_counter, Create_dynamic>>)
    /\ is_variable_declared(tracker, PyStr(<<"c", "o", "u", "n", "t", "e", "r">>))
    /\ EntryOf(tracker, PyStr(<<"c", "o", "u", "n", "t", "e", "r">>)).declared_in = PyStr(<<"I", "n", "i", "t", "_", "c", "o", "u", "n", "t", "e", "r">>)
    /\ PyStr(<<"c", "o", "u", "n", "t", "e", "r">>) \in DOMAIN other.result.variables
    /\ other.result.variables[PyStr(<<"c", "o", "u", "n", "t", "e", "r">>)].declared_in = PyNone


(***************************************************************************)
(* SpecReparse: one parser, two calls of parse_expression on one expression*)
(***************************************************************************)
InitReparse ==
    /\ expression \in ParseInputs
    /\ use_advanced \in BOOLEAN
    /\ ast_enabled \in BOOLEAN   \* FALSE: Lark failed in __init__
    /\ parsed = NoResult
    /\ reparsed = NoResult
    /\ TrackerIdle
    /\ ExtractIdle
    /\ ApiIdle

\* the second call, on the parser as the first call left it
ParseAgain ==
    /\ parsed # NoResult
    /\ reparsed = NoResult
    /\ reparsed' = parse_expression(expression, use_advanced, ast_enabled)
    /\ UNCHANGED <<expression, use_advanced, ast_enabled, parsed, trackerVars, extractVars, apiVars>>

NextReparse ==
    \/ ParseExpression
    \/ ParseAgain

SpecReparse == InitReparse /\ [][NextReparse]_vars

C19_OuterAccessorsAugment ==
    (use_advanced /\ ast_enabled /\ parsed # NoResult
        /\ StartsWith(expression.s, <<"@", "(">>)) =>
        \A S \in StepNames :
            expression = PyStr(ParenthesizedChainExpr(S, <<"a">>, <<"b">>))
            => /\ parsed.source_type = "output"
               /\ parsed.step_name = PyStr(S)
               /\ parsed.field_ref = PyStr(<<"a">>)
               /\ "field_path" \in DOMAIN parsed
               /\ parsed.field_path = <<PyStr(<<"a">>), PyStr(<<"b">>)>>


\* a canonical shape with extra text after it, or before it
ShapeWithExtraText == {VariablesThenText, TextThenVariables, TriggerBodyThenText}

\* C20: in the regex tier a rule classifies an '@' expression only when the
\* whole expression has the rule's shape: an expression that contains a shape
\* with extra text before or after it matches no rule and is unknown.
C20_RulesAreWholeString ==
    (~use_advanced /\ parsed # NoResult /\ expression.t = "str"
        /\ expression.s \in ShapeWithExtraText)
    => parsed.source_type = "unknown"


(***************************************************************************)
(* Claims about the choice of tier (checked under SpecReparse, where the   *)
(* AST engine may have failed to initialise)                               *)
(***************************************************************************)

\* the AST tier applies: the engine is there, the text starts with '@' once
\* stripped, and the grammar accepts it
AstTierApplies ==
    /\ ast_enabled
    /\ is_expression(expression)
    /\ ParseToAst(expression.s).ok

\* C21: an AdvancedExpressionParser returns the AST-derived record, carrying
\* the ast field, for every '@' expression the grammar accepts, whatever the
\* regex rules would say; in every other case (grammar parse failed, or
\* ast_enabled false) it returns exactly the basic ExpressionParser's record.
C21_AstPreferredRegexFallback ==
    (use_advanced /\ parsed # NoResult) =>
        IF AstTierApplies
        THEN /\ "ast" \in DOMAIN parsed
             /\ parsed.ast = ParseToAst(expression.s).ast
             /\ parsed.source_type = extract_semantic_info(parsed.ast).source_type
        ELSE /\ "ast" \notin DOMAIN parsed
             /\ parsed = ExpressionParser_parse_expression(expression)

\* both tiers could classify @variables('a'); the record is the AST one
C21_Witness ==
    /\ use_advanced /\ ast_enabled
    /\ expression = PyStr(VariablesExpr(<<>>, <<"a">>, <<>>))
    /\ parsed # NoResult
    /\ "ast" \in DOMAIN parsed
    /\ ExpressionParser_parse_expression(expression).source_type = "variable"
    /\ parsed.source_type = "variable"


(***************************************************************************)
(* Claims about the provenance of variable-sourced writes (checked under   *)
(* Spec)                                                                   *)
(***************************************************************************)

\* the action a occurs in the map before the position now being left
ProcessedBefore(a) ==
    \E j \in 1..(idx - 1) : ActionsOf(definition).kv[j] = a

\* the pass over Create_dynamic, which writes firstname from
\* @variables('counter'), has just been made
WroteFromCounter ==
    /\ idx > 0
    /\ ~HasParseError
    /\ LastAction = Create_dynamic

\* the contribution that pass appended for firstname
CounterContribution ==
    result.modified_fields[<<"f", "i", "r", "s", "t", "n", "a", "m", "e">>][Len(result.modified_fields[<<"f", "i", "r", "s", "t", "n", "a", "m", "e">>])]

\* C22: a field written from a variable keeps source_type variable, and its
\* detail names the declared_in the tracker holds for the variable when the
\* write is processed: the declaring action's name where an earlier action of
\* the map declared it, the bare name where the tracker does not know it.
C22_VariableDetailNamesDeclaringAction ==
    WroteFromCounter =>
        /\ CounterContribution.action_name = <<"C", "r", "e", "a", "t", "e", "_", "d", "y", "n", "a", "m", "i", "c">>
        /\ CounterContribution.source_type = "variable"
        /\ CounterContribution.expression =
               PyStr(VariablesExpr(<<>>, <<"c", "o", "u", "n", "t", "e", "r">>, <<>>))
        /\ CounterContribution.source_detail =
               IF is_variable_declared(tracker, PyStr(<<"c", "o", "u", "n", "t", "e", "r">>))
               THEN PyStr(<<"c", "o", "u", "n", "t", "e", "r", " ", "(", "d", "e", "c", "l", "a", "r", "e", "d", " ", "i", "n", " ">>
                          \o str(EntryOf(tracker, PyStr(<<"c", "o", "u", "n", "t", "e", "r">>)).declared_in)
                          \o <<")">>)
               ELSE PyStr(<<"c", "o", "u", "n", "t", "e", "r">>)
        /\ ProcessedBefore(Init_counter) =>
               CounterContribution.source_detail =
                   PyStr(<<"c", "o", "u", "n", "t", "e", "r", " ", "(", "d", "e", "c", "l", "a", "r", "e", "d", " ", "i", "n", " ", "I", "n", "i", "t", "_", "c", "o", "u", "n", "t", "e", "r", ")">>)
        /\ (~ProcessedBefore(Init_counter) /\ ~ProcessedBefore(Increment_counter)) =>
               CounterContribution.source_detail = PyStr(<<"c", "o", "u", "n", "t", "e", "r">>)

C22_Witness ==
    /\ WroteFromCounter
    /\ idx = 2
    /\ ActionsOf(definition).kv = <<Init_counter, Create_dynamic>>
    /\ CounterContribution.source_type = "variable"
    /\ CounterContribution.source_detail =
           PyStr(<<"c", "o", "u", "n", "t", "e", "r", " ", "(", "d", "e", "c", "l", "a", "r", "e", "d", " ", "i", "n", " ", "I", "n", "i", "t", "_", "c", "o", "u", "n", "t", "e", "r", ")">>)


(***************************************************************************)
(* Claims about the fields of a write action (checked under Spec)          *)
(***************************************************************************)

\* the parameters of the action whose pass has just been made
LastParameters ==
    dict_get(dict_get(LastAction.v, <<"i", "n", "p", "u", "t", "s">>, EmptyDict), <<"p", "a", "r", "a", "m", "e", "t", "e", "r", "s">>, EmptyDict)

\* that pass analysed the action as a write
LastActionAnalysed ==
    /\ idx > 0
    /\ IsDict(LastAction.v)
    /\ analysis # PyNone
    /\ analysis.action_name = LastAction.k

FieldNamesOf(an) ==
    [i \in 1..Len(an.modified_fields) |-> an.modified_fields[i].field_name]

\* a key without its leading 'item/'
WithoutItemPrefix(key) ==
    IF IsPrefix(<<"i", "t", "e", "m", "/">>, key) THEN SubSeq(key, 6, Len(key)) ELSE key

KeysOf(kv) == [i \in 1..Len(kv) |-> kv[i].k]

StrippedKeys(kv) == [i \in 1..Len(kv) |-> WithoutItemPrefix(kv[i].k)]

ItemPrefixedKeys(kv) == SelectSeq(kv, LAMBDA e : IsPrefix(<<"i", "t", "e", "m", "/">>, e.k))

\* C23 as stated: the keys of the item object yield the fields whenever an
\* item object is present, and the top-level 'item/' parameters only when
\* there is none.
C23_TopLevelOnlyWithoutItemObject ==
    LastActionAnalysed =>
        FieldNamesOf(analysis) =
            IF HasKey(LastParameters, <<"i", "t", "e", "m">>)
            THEN StrippedKeys(dict_get(LastParameters, <<"i", "t", "e", "m">>, EmptyDict).kv)
            ELSE StrippedKeys(ItemPrefixedKeys(LastParameters.kv))

\* C23 (amended): every key of a non-empty item object yields one field; when
\* the item object is absent or empty the top-level parameters are scanned and
\* exactly the keys starting with 'item/' yield fields; a leading 'item/' is
\* stripped in both cases, and entityName never becomes a field.
C23_FieldsFromItemOrPrefixedParameters ==
    LastActionAnalysed =>
        /\ FieldNamesOf(analysis) =
              IF HasKey(LastParameters, <<"i", "t", "e", "m">>)
                 /\ dict_get(LastParameters, <<"i", "t", "e", "m">>, EmptyDict) # EmptyDict
              THEN StrippedKeys(dict_get(LastParameters, <<"i", "t", "e", "m">>, EmptyDict).kv)
              ELSE StrippedKeys(ItemPrefixedKeys(LastParameters.kv))
        /\ \A i \in 1..Len(analysis.modified_fields) :
              /\ analysis.modified_fields[i].field_name # <<"e", "n", "t", "i", "t", "y", "N", "a", "m", "e">>
              /\ ~IsPrefix(<<"i", "t", "e", "m", "/">>, analysis.modified_fields[i].field_name)

\* the two forms in one flow: an item object, then top-level parameters
C23_Witness ==
    /\ LastActionAnalysed
    /\ idx = 2
    /\ ActionsOf(definition).kv = <<Update_unnamed, Create_dynamic>>
    /\ FieldNamesOf(analysis) = <<<<"f", "u", "l", "l", "n", "a", "m", "e">>, <<"f", "i", "r", "s", "t", "n", "a", "m", "e">>>>
    /\ HasKey(LastParameters, <<"e", "n", "t", "i", "t", "y", "N", "a", "m", "e">>)
    /\ <<"f", "i", "r", "s", "t", "n", "a", "m", "e">> \in DOMAIN result.modified_fields
    /\ Len(result.modified_fields[<<"f", "i", "r", "s", "t", "n", "a", "m", "e">>]) = 2


(***************************************************************************)
(* Claims about failures inside one action (checked under Spec)            *)
(***************************************************************************)

\* C24: a failure confined to one action, such as an action whose definition
\* is not a mapping, is absorbed there: whenever the clientdata holds a map of
\* actions, the call returns without parse_error and with every action of the
\* map recorded, the later ones included.
C24_ActionFailuresAbsorbed ==
    (Returned_result /\ ~Unreadable /\ IsDict(ActionsOf(DefinitionObject))) =>
        /\ ~HasParseError
        /\ result.actions = KeysOf(ActionsOf(DefinitionObject).kv)


(***************************************************************************)
(* SpecDataverse: calls of DataverseOperations.get_attibuteid, one after   *)
(* the other, all given the same RateLimitTracker.  One action per attempt *)
(* of the retry loop, by what the HTTP request does.                       *)
(***************************************************************************)
max_retries == 3

MaxApiCalls == 2

\* the name attributemetadata before and after its first assignment
NoResponse == [bound |-> FALSE]
Response(status_code) == [bound |-> TRUE, status_code |-> status_code]

\* the Retry-After header of a 429 response: absent, or a number of seconds
RetryAfterHeaders == { {}, {2} }

\* int(attributemetadata.headers.get('Retry-After', 60))
RetryAfterOf(header) == IF header = {} THEN 60 ELSE CHOOSE n \in header : TRUE

\* RateLimitTracker.record_request
record_request(R, hit_429, retry_count, retry_after) ==
    [total_requests   |-> R.total_requests + 1,
     total_429_errors |-> IF hit_429 THEN R.total_429_errors + 1 ELSE R.total_429_errors,
     total_retries    |-> IF hit_429 THEN R.total_retries + retry_count ELSE R.total_retries,
     total_wait_time  |-> IF hit_429 THEN R.total_wait_time + retry_after * retry_count
                          ELSE R.total_wait_time,
     request_history  |-> Append(R.request_history,
                                 [hit_429 |-> hit_429, retry_count |-> retry_count,
                                  retry_after_seconds |-> retry_after])]

\* the locals of a call at the head of its loop
StartOfAttrCall ==
    [pc |-> "loop", attempt |-> 0, attributemetadata |-> NoResponse,
     hit_429 |-> FALSE, retry_count |-> 0, total_retry_after |-> 0,
     exception |-> "none"]

InitDataverse ==
    /\ ParseIdle
    /\ TrackerIdle
    /\ ExtractIdle
    /\ ApiIdle

\* a caller enters get_attibuteid
BeginCall ==
    /\ attr.pc \in {"idle", "returned", "raised"}
    /\ observed.calls < MaxApiCalls
    /\ attr' = StartOfAttrCall
    /\ observed' = [observed EXCEPT !.calls = @ + 1, !.call_requests = 0]
    /\ UNCHANGED <<rate_limit_tracker, parseVars, trackerVars, extractVars>>

\* the handler of requests.exceptions.RequestException, a being the locals
\* when the exception is caught
HandleRequestException(a) ==
    IF a.attempt < max_retries - 1 /\ ~a.attributemetadata.bound
    THEN /\ attr' = [a EXCEPT !.pc = "raised", !.exception = "UnboundLocalError"]
         /\ UNCHANGED rate_limit_tracker
    ELSE IF a.attempt < max_retries - 1 /\ a.attributemetadata.status_code # 429
    THEN /\ attr' = [a EXCEPT !.attempt = @ + 1]
         /\ UNCHANGED rate_limit_tracker
    ELSE /\ attr' = [a EXCEPT !.pc = "raised", !.exception = "ConnectionError"]
         /\ rate_limit_tracker' =
                record_request(rate_limit_tracker, a.hit_429, a.retry_count,
                               a.total_retry_after)

\* requests.get itself raises (no connection, timeout)
RequestRaises ==
    /\ attr.pc = "loop"
    /\ HandleRequestException(attr)
    /\ observed' = [observed EXCEPT !.requests = @ + 1, !.call_requests = @ + 1]
    /\ UNCHANGED <<parseVars, trackerVars, extractVars>>

\* the response is 429 Too Many Requests
Respond429 ==
    /\ attr.pc = "loop"
    /\ \E header \in RetryAfterHeaders :
          IF attr.attempt < max_retries - 1
          THEN /\ attr' = [attr EXCEPT !.attributemetadata = Response(429),
                                       !.hit_429 = TRUE,
                                       !.retry_count = @ + 1,
                                       !.total_retry_after = @ + RetryAfterOf(header),
                                       !.attempt = @ + 1]
               /\ observed' = [observed EXCEPT !.requests = @ + 1, !.call_requests = @ + 1,
                                               !.slept = @ + RetryAfterOf(header),
                                               !.retries = @ + 1]
               /\ UNCHANGED rate_limit_tracker
          ELSE /\ HandleRequestException(
                      [attr EXCEPT !.attributemetadata = Response(429),
                                   !.hit_429 = TRUE,
                                   !.retry_count = @ + 1])
               /\ observed' = [observed EXCEPT !.requests = @ + 1, !.call_requests = @ + 1]
    /\ UNCHANGED <<parseVars, trackerVars, extractVars>>

\* the response is another HTTP error: raise_for_status raises
RespondHttpError ==
    /\ attr.pc = "loop"
    /\ HandleRequestException([attr EXCEPT !.attributemetadata = Response(500)])
    /\ observed' = [observed EXCEPT !.requests = @ + 1, !.call_requests = @ + 1]
    /\ UNCHANGED <<parseVars, trackerVars, extractVars>>

\* the response is 200 and holds the attribute
RespondFound ==
    /\ attr.pc = "loop"
    /\ attr' = [attr EXCEPT !.attributemetadata = Response(200), !.pc = "returned"]
    /\ rate_limit_tracker' =
           record_request(rate_limit_tracker, attr.hit_429, attr.retry_count,
                          attr.total_retry_after)
    /\ observed' = [observed EXCEPT !.requests = @ + 1, !.call_requests = @ + 1]
    /\ UNCHANGED <<parseVars, trackerVars, extractVars>>

\* the response is 200 with an empty 'value' list
RespondNotFound ==
    /\ attr.pc = "loop"
    /\ attr' = [attr EXCEPT !.attributemetadata = Response(200),
                            !.pc = "raised", !.exception = "ValueError"]
    /\ observed' = [observed EXCEPT !.requests = @ + 1, !.call_requests = @ + 1]
    /\ UNCHANGED <<rate_limit_tracker, parseVars, trackerVars, extractVars>>

NextDataverse ==
    \/ BeginCall
    \/ RequestRaises
    \/ Respond429
    \/ RespondHttpError
    \/ RespondFound
    \/ RespondNotFound

SpecDataverse == InitDataverse /\ [][NextDataverse]_vars


\* C25: whatever the HTTP request does on each attempt, the first included, a
\* call of get_attibuteid sends at most 3 requests and ends by returning the
\* attribute id or by raising ConnectionError or ValueError, nothing else.
C25_ThreeRequestsIdOrDocumentedError ==
    /\ observed.call_requests <= max_retries
    /\ attr.pc = "loop" => attr.attempt < max_retries
    /\ attr.pc = "raised" => attr.exception \in {"ConnectionError", "ValueError"}

\* C26: once every call made so far has ended and been recorded,
\* total_wait_time is the number of seconds the calls slept because of
\* Retry-After headers, and total_retries the number of retries made after a
\* 429.
C26_TotalsMatchWhatHappened ==
    (attr.pc \in {"returned", "raised"}
        /\ rate_limit_tracker.total_requests = observed.calls) =>
        /\ rate_limit_tracker.total_wait_time = observed.slept
        /\ rate_limit_tracker.total_retries = observed.retries


(***************************************************************************)
(* Claims about selectors (checked under SpecParse)                        *)
(***************************************************************************)

\* the path segment a selector text stands for
SegmentOf(sel) ==
    CASE sel = <<"'", "'">> -> PyStr(<<>>)
      [] sel = <<"0">>      -> PyInt(0)
      [] sel = <<"1">>      -> PyInt(1)
      [] OTHER              -> PyStr(sel)

\* C27: each of the n accessors after a function call contributes one path
\* segment, whatever its selector: for @outputs('S')[sel]?['b'] the path is
\* [sel, b] with field_ref sel, also for the empty string and for 0.
C27_EveryAccessorOneSegment ==
    (use_advanced /\ ast_enabled /\ parsed # NoResult
        /\ StartsWith(expression.s, <<"@", "o", "u", "t", "p", "u", "t", "s", "(", "'", "S", "'", ")", "[">>)) =>
        \A sel \in SelectorTexts :
            expression = PyStr(SelectorChainExpr(sel))
            => /\ "field_ref" \in DOMAIN parsed
               /\ parsed.field_ref = SegmentOf(sel)
               /\ "field_path" \in DOMAIN parsed
               /\ parsed.field_path = <<SegmentOf(sel), PyStr(<<"b">>)>>


(***************************************************************************)
(* Claims about the agreement of the two tiers (checked under SpecParse)   *)
(***************************************************************************)
ComparedKeys == {"field_ref", "variable_name", "step_name", "parameter_name"}

\* two records have the same source_type and the same compared keys
SameProvenance(p1, p2) ==
    /\ p1.source_type = p2.source_type
    /\ \A k \in ComparedKeys :
          /\ (k \in DOMAIN p1) <=> (k \in DOMAIN p2)
          /\ (k \in DOMAIN p1) => p1[k] = p2[k]

\* C28: on every canonical shape, with or without a body/ prefix in the
\* selector, the record the parser at hand returns has the same source_type,
\* field_ref, variable_name, step_name and parameter_name as the record the
\* parser of the other kind returns.
C28_TiersAgreeOnCanonicalShapes ==
    (parsed # NoResult /\ expression.t = "str"
        /\ expression.s \in CanonicalExpressions) =>
        SameProvenance(parsed, parse_expression(expression, ~use_advanced, TRUE))


(***************************************************************************)
(* Claims about get_all_variables and the modification lists (checked      *)
(* under SpecTracker)                                                      *)
(***************************************************************************)
\* what the caller reads now through the mapping it was returned
ReadThrough(mapping) == [var_name \in DOMAIN mapping |-> heap[mapping[var_name]]]

\* C29: a mapping get_all_variables returned stays as it was on return,
\* whatever register_variable and track_modification calls follow: the same
\* names, and for each name the same declaration data and the same
\* modifications list.
C29_ReturnedMappingIsSnapshot ==
    snapshot.taken =>
        /\ DOMAIN ReadThrough(snapshot.mapping) = DOMAIN snapshot.seen
        /\ \A var_name \in DOMAIN snapshot.seen :
              ReadThrough(snapshot.mapping)[var_name] = snapshot.seen[var_name]


\* the position of the latest register_variable for var_name, 0 if none
LastRegistered(var_name) ==
    IF RegisteredAt(var_name) = {} THEN 0 ELSE Max(RegisteredAt(var_name))

\* the call a step appended to history
LastCall(h) == h[Len(h)]

\* what one call does to the entry of a name that was present before it
StepOnEntry(var_name) ==
    LET before == heap[variables[var_name]]
        after  == heap'[variables'[var_name]]
        call   == LastCall(history')
    IN  IF history' = history \/ call.var_name # var_name
        THEN after = before
        ELSE IF call.call = "register_variable"
        THEN after.modifications = <<>>
        ELSE /\ Len(after.modifications) = Len(before.modifications) + 1
             /\ SubSeq(after.modifications, 1, Len(before.modifications))
                   = before.modifications
             /\ after.declared_in = before.declared_in
             /\ after.initial_value = before.initial_value
             /\ after.value_type = before.value_type

\* C30: after any sequence of register_variable and track_modification calls
\* the modifications list of a name holds, in call order, exactly the
\* modifications tracked for it since its latest register_variable (since the
\* start if there was none); register_variable on a present name empties its
\* list, and track_modification appends one entry at the end and leaves the
\* earlier entries and the entries of other names as they were.
C30_ModificationsSinceLastRegistration ==
    /\ [](\A var_name \in TrackerNames :
            IF var_name \in NamesUsed
            THEN /\ var_name \in DOMAIN variables
                 /\ EntryOf(ThisTracker, var_name).modifications
                       = TrackedAfter(var_name, LastRegistered(var_name))
            ELSE var_name \notin DOMAIN variables)
    /\ [][\A var_name \in DOMAIN variables :
            /\ var_name \in DOMAIN variables'
            /\ StepOnEntry(var_name)]_vars

C30_Witness ==
    /\ Len(history) = 3
    /\ history[1].call = "track_modification"
    /\ history[2].call = "register_variable"
    /\ history[3].call = "track_modification"
    /\ \A i \in 1..3 : history[i].var_name = PyStr(<<"x">>)
    /\ history[1].action_name = <<"I", "n", "c", "r", "e", "m", "e", "n", "t", "_", "1">>
    /\ history[3].action_name = <<"I", "n", "c", "r", "e", "m", "e", "n", "t", "_", "2">>
    /\ Len(EntryOf(ThisTracker, PyStr(<<"x">>)).modifications) = 1
    /\ EntryOf(ThisTracker, PyStr(<<"x">>)).modifications[1].action = <<"I", "n", "c", "r", "e", "m", "e", "n", "t", "_", "2">>

=============================================================================
